SPECIFICATION FairSpec
CONSTANTS
    s = s
    p = p
    q = q
    r = r
    i = i
    c = c
    x = x
    e = e
    w = w
    t = t
    y = y
    Urls = {s, p, q, r, i, c, x, e, w, t, y}
    LocalFiles <- Names
    Variants = {}
    LocalName <- Same
    Tmp <- Dotted
    NoFile = NoFile
    RobotsTxt <- Robots
    unescape <- Escaped
    Host <- TwoHosts
    Dir <- TwoDirs
    HtmlUrls <- Pages
    CssUrls <- Styles
    HtmlSuffix <- Pages
    Misresolved = w
    DiskFull = TRUE
    Cases <- Trees
INVARIANTS LoadsWhatItShould QueueSound 
PROPERTIES Terminates
CHECK_DEADLOCK FALSE
