-------------------------- MODULE MCStaticTimetable --------------------------
(***************************************************************************)
(* StaticTimetable for TLC: two releases of the timetable.  Trip a has two *)
(* stops at the same time, and in the second release a stop without a time *)
(* and another without coordinates; trip b ends past midnight, and the     *)
(* second release does not have it.                                        *)
(***************************************************************************)
EXTENDS StaticTimetable, TLC

CONSTANTS r1, r2, a, b

Stop(s, time) == [stop |-> s, at |-> time]

MCStopTimes ==
  (r1 :> (a :> <<Stop(1, 1), Stop(2, 2), Stop(3, 2), Stop(4, 4)>>
       @@ b :> <<Stop(6, 4), Stop(7, 6)>>))
  @@ (r2 :> (a :> <<Stop(1, 0), Stop(2, NoTime), Stop(3, 1), Stop(5, 1), Stop(4, 3)>>
          @@ b :> <<>>))

(* Places are numbers; stop 4 has been moved. *)
MCPlaces ==
  (r1 :> <<1, 2, 3, 4, NoPlace, 7, 8>>) @@ (r2 :> <<1, 2, NoPlace, 6, 5, NoPlace, NoPlace>>)

MCDelays == {0, 1}
=============================================================================
