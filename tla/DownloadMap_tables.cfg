SPECIFICATION Spec
CONSTANTS
    a = a
    b = b
    i = i
    f = f
    g = g
    Urls = {a, b, i}
    LocalFiles = {f, g}
    Variants <- Index
    HtmlUrls <- Pages
    CssUrls <- Styles
    Opts <- Usual
INVARIANTS TablesConsistent ConversionRight RedirectionRegistered
