------------------------------ MODULE MCInetGsm ------------------------------
(***************************************************************************)
(* Instances of InetGsm, and of GsmModem within it, with three rates:      *)
(* below and above the one that begin forces, and that.                    *)
(***************************************************************************)
EXTENDS InetGsm

MCRates == <<1200, 9600, 115200>>
=============================================================================
