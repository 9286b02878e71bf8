-------------------------------- MODULE MCBoot --------------------------------
(* A daemon of the service manager, one started by hand, two clients.        *)
EXTENDS Boot

CONSTANTS u, h1, c1, c2
===============================================================================
