------------------------------ MODULE MCDevices ------------------------------
(* Devices with two threads, a disk of two tracks of two sectors, and two
   characters typed.                                                        *)
EXTENDS Devices

TwoKeys == <<"a", "nl">>
OneEach == <<1, 1>>
=============================================================================
