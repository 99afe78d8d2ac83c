------------------------------ MODULE MCDelay ------------------------------
(* Instances of Delay.                                                       *)
EXTENDS Delay
CONSTANTS idle, main, kinput, user
MCRing == <<idle, main, kinput, user>>
MCSleepers == {main, kinput}
MCReapers == {user}
MCModes == [masked : {{}, {main}, MCSleepers}, reaping : BOOLEAN]
MCFirstDelay == [masked : {{}}, reaping : {TRUE}]
MCLaterDelay == [masked : {MCSleepers}, reaping : {TRUE}]
MCDelays == {1000000, 10000000, 20000000}
MCShortDelay == {1000000}
=============================================================================
