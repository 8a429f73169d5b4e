------------------------------ MODULE MCUartRx ------------------------------
(***************************************************************************)
(* UartRx with a short frame <<1, 3>> and a long one whose payload holds the *)
(* short one's header.                                                       *)
(***************************************************************************)
EXTENDS UartRx, TLC

MCBytes == 0..3
MCFrames == {<<1, 3>>, <<2, 1, 0, 3>>}
MCExpected == (0 :> 0) @@ (1 :> 2) @@ (2 :> 4) @@ (3 :> 0)
=============================================================================
