---------------------------- MODULE MCBufferPool ----------------------------
(* Model-checking instances of BufferPool. *)
EXTENDS BufferPool, TLC

ClientSymmetry == Permutations(Clients)

Overlapping ==
    [frames |-> Frames, pages |-> 2, loads |-> 3, changes |-> 1,
     overlap |-> TRUE, failing |-> FALSE]

\* Calls one after another, with three pages for two frames; calls that overlap;
\* failing reads with three pages for two frames; failing reads and writes with
\* two pages for one frame.
MCWorkloads ==
    {[frames |-> Frames, pages |-> 3, loads |-> 4, changes |-> 1,
      overlap |-> FALSE, failing |-> FALSE],
     Overlapping,
     [frames |-> Frames, pages |-> 3, loads |-> 2, changes |-> 0,
      overlap |-> FALSE, failing |-> TRUE],
     [frames |-> {0}, pages |-> 2, loads |-> 4, changes |-> 1,
      overlap |-> FALSE, failing |-> TRUE]}

OverlapOnly == {[Overlapping EXCEPT !.pages = 3, !.loads = 5]}
=============================================================================
