----------------------------- MODULE MCRespond ------------------------------
(* The answers TLC checks Respond with. *)
EXTENDS Respond

FilePiece(n)  == [kind |-> "file", length |-> n]
TextPiece(n)  == [kind |-> "text", length |-> n]
PrintPiece(n) == [kind |-> "print", length |-> n]

\* A status without a page, an error without its page, files of one chunk, of a
\* whole number of chunks and of one byte more, and templates: the last ends in a
\* script, behind which parse_file() marks an empty text.
MCAnswer == { [head |-> FALSE, pieces |-> <<>>],
              [head |-> TRUE,  pieces |-> <<>>],
              [head |-> TRUE,  pieces |-> <<FilePiece(1)>>],
              [head |-> TRUE,  pieces |-> <<FilePiece(4)>>],
              [head |-> TRUE,  pieces |-> <<FilePiece(5)>>],
              [head |-> TRUE,  pieces |-> <<TextPiece(3), PrintPiece(3), TextPiece(1)>>],
              [head |-> TRUE,  pieces |-> <<PrintPiece(2), TextPiece(0)>>] }
=============================================================================
