------------------------------ MODULE MCUtp -------------------------------
(* Small instances of Utp for TLC *)
EXTENDS Utp, TLC

Load(x, y) == "a" :> x @@ "b" :> y

OneSided == {Load(2, 0), Load(0, 2)}
Dialer == {Load(2, 0)}
===========================================================================
