SPECIFICATION TextSpec
CONSTANTS
    LF = LF
    Others = {a, b}
    MaxText = 5
    MaxChunk = 3
    MarkupTexts <- MCMarkupTexts
    BodyTexts <- MCBodyTexts
    URLs <- MCURLs
INVARIANTS TextPreserved ChunkingInvisible CDataReadsBack BodyReadsBack UrlReadsBack
