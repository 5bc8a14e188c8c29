SPECIFICATION Spec
CONSTANTS
    Literal <- MCLiteral
    Inside <- MCInside
    Segments <- MCSegments
    MaxParenDepth = 2
    Shapes <- MCShapes
    Identities = {"sha256:a", "sha256:b"}
    Indexes <- MCIndexes
    Eof = Eof
    None = None
    Utf8 <- MCUtf8
    Widths <- MCWidths
    MaxPayload = 256
    MaxElsewhere = 11
    Documents <- MCDocuments
    Stray <- MCStray
INVARIANTS
    TypeOK
    WordsKept
    ClausesKept
    LexicalScope
    DeclarationsKept
    RoundTrip
    OneEncoding
