------------------------------ MODULE MCPaging ------------------------------
(* An instance of Paging for TLC.                                          *)
EXTENDS Paging, TLC

Ask(limit, offset, want, start, repeats) ==
    [limit |-> limit, offset |-> offset, want |-> want, start |-> start,
     repeatsOffset |-> repeats]

Kept == [time |-> 2, id |-> 2]

\* Pages of one row, of the default and of the maximal size; an offset sent once
\* and one sent with every request; a limit that is no number; a walk from a kept
\* cursor and one from a token that is none.
MCRequests ==
    {Ask(1, 0, "any", Zero, FALSE), Ask(1, 0, "open", Zero, FALSE),
     Ask(0, 0, "any", Zero, FALSE), Ask(9, 0, "open", Zero, FALSE),
     Ask(1, 1, "any", Zero, FALSE), Ask(1, 1, "any", Zero, TRUE),
     Ask(-1, 0, "any", Zero, FALSE), Ask(1, 0, "any", Kept, FALSE),
     Ask(1, 0, "any", Malformed, FALSE)}
=============================================================================
