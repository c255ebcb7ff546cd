CONSTANTS
    u = u
    v = v
    xml = xml
    URIs <- Uris
    XmlURI = xml
    Prefixes <- MCPrefixes
    XmlPrefix = "xml"
    XmlnsPrefix = "xmlns"
    PrefixAt <- MCPrefixAt
    MaxCounter = 3
    NoURI = NoURI
    NoPrefix = "none"
    Bindable <- TwoPrefixes
    SharedBindings = FALSE
    MaxDepth = 2
SYMMETRY UriSymmetry
CHECK_DEADLOCK FALSE
SPECIFICATION Spec
INVARIANTS
    TypeOK
    NamesResolve
    DeclaredOnce
    OnePrefixPerNamespace
    NothingDropped
