-------------------------------- MODULE MCIo --------------------------------
(* Instances of Io for TLC.                                                *)
EXTENDS Io

\* A resource that reads and has something to write, or wants nothing.
MCInterests == {{}, Io}
=============================================================================
