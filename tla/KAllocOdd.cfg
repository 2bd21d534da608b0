SPECIFICATION Spec
CONSTANTS
    PageSize = 12
    Header = 2
    Sizes = {2, 3}
    Mallocs <- Around
INVARIANT
    HeadersIntact
