SPECIFICATION FairSpec
CONSTANTS
    a = a
    b = b
    c = c
    r = r
    f = f
    g = g
    h = h
    Urls = {a, b, c, r}
    LocalFiles = {f, g, h}
    Variants <- Nothing
    HtmlUrls <- Pages
    CssUrls <- Nothing
    Opts <- Both
    Method = "POST"
    Calls = 2
    max_redirect = 2
INVARIANTS CallsSound MethodKept UrlsRegistered
PROPERTIES ImplementsDownloadMap Terminates
CHECK_DEADLOCK FALSE
