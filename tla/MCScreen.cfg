CONSTANTS
    Chunks <- MCChunks
    Heights = {0, 1, 2, 3, 4}
    Widths = {0, 1, 2, 3, 4, 5, 6, 7, 8, 9, 10, 11, 12, 13, 14, 15, 16}
    Words <- MCWords
    MaxText = 6
    Pieces <- MCPieces
    MaxParts = 11
SPECIFICATION MCSpec
INVARIANTS ShowsWhatWasWritten WrapShowsEveryWord AddressIsFollowed
PROPERTIES NothingScrollsAway
CHECK_DEADLOCK FALSE
