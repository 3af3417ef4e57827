------------------------------ MODULE MCScreen ------------------------------
(***************************************************************************)
(* Screen for TLC: a window on each side of every threshold, no wider than *)
(* necessary, and a machine that just fits.                                *)
(***************************************************************************)
EXTENDS Screen

MCSizes ==
    {[w |-> 95, h |-> 45], [w |-> 96, h |-> 30], [w |-> 96, h |-> 35],
     [w |-> 97, h |-> 40], [w |-> 98, h |-> 45]}

Ordinary ==
    [processes |-> Times(60, 0), interfaces |-> Times(7, 0), drives |-> Times(6, 0),
     over |-> [f \in Field |-> 0], use |-> 100, charge |-> 100, real |-> 100, head |-> 94]

\* An ordinary refresh, and refreshes that differ from it: with lines as long as
\* the window of the minimum width can take, with lines too long for it and not
\* for the next wider one, and with a first line that is.
MCData ==
    {Ordinary,
     [Ordinary EXCEPT !.processes = <<31, 0>>, !.interfaces = Times(6, 1),
                      !.drives = Times(6, 7), !.use = 109,
                      !.over = [cpu |-> 0, memory |-> 8, swap |-> 51, virtual |-> 35]],
     [Ordinary EXCEPT !.processes = <<>>, !.use = 0, !.charge = 0, !.over["cpu"] = 1],
     [Ordinary EXCEPT !.processes[2] = 32, !.interfaces[3] = 56, !.drives[2] = 8,
                      !.over["memory"] = 9, !.over["virtual"] = 36, !.real = -5],
     [Ordinary EXCEPT !.use = 150, !.head = 95]}
=============================================================================
