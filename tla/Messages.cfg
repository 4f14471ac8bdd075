\* Forms of up to two fields with up to three characters of content between them;
\* bodies of every kind of up to four units, encoded if they are not longer than
\* seven with their delimiters, and written from a buffer of two; files of up to
\* six bytes where int ends at five; three calls that set content, and streams of
\* two chunks.
SPECIFICATION FairSpec
CONSTANTS
  Names = {n1}
  MaxFields = 2
  MaxContent = 3
  MaxUnits = 4
  MaxParts = 2
  MaxEncoded = 7
  BufferSize = 2
  Sizes = {0, 1, 3, 5, 6}
  Numbers = {0, 1, 2, 5, 6}
  IntMax = 5
  BufSize = 2
  MaxSpecs = 2
  MaxCalls = 3
  MaxChunks = 2
INVARIANTS TypeOK FormsAreRead AcceptedIsWhole ServesWhatItAnnounces ClientReadsTheContent
PROPERTIES BodiesAreRead
CHECK_DEADLOCK FALSE
