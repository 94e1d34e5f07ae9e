---------------------------- MODULE MCAggregation ----------------------------
(* Instances of WfbStream for TLC.  A tunnel packet of size 1 or 3 takes 3   *)
(* or 5 of the 8 units of a frame: two short ones leave 2, a short and a     *)
(* long one fill it, two long ones do not fit.  Size 7 never fits.           *)
EXTENDS WfbStream
MCSizes == {1, 3, 7}
MCWlans == 0 .. 1

Of(mirror, sizes, reads, ticks, switches, hears, clients) ==
  [mirror |-> mirror, sizes |-> sizes, reads |-> reads, ticks |-> ticks,
   switches |-> switches, hears |-> hears, clients |-> clients]

(* Four packets; keepalives with antenna switches, with data both ways, and *)
(* in mirror mode; TCP clients.                                             *)
MCScenarios ==
  {Of(FALSE, MCSizes, 4, 0, 0, 0, FALSE),
   Of(FALSE, {1}, 0, 3, 2, 0, FALSE),
   Of(FALSE, {1}, 1, 3, 0, 2, FALSE),
   Of(TRUE, {1}, 1, 3, 0, 0, FALSE),
   Of(FALSE, {}, 0, 0, 0, 0, TRUE)}
=============================================================================
