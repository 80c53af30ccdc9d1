SPECIFICATION NotesSpec
CONSTANTS
    FenceAfterComment = TRUE
    CommentOnHeading = FALSE
INVARIANT GuidanceIsVisible
