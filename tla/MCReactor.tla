------------------------------ MODULE MCReactor ------------------------------
(* Instances of Reactor for TLC.                                           *)
EXTENDS Reactor

\* A resource that wants to read, and to write while it has data buffered, or
\* that wants nothing at all for a while.
MCInterests == {{}, {"read"}, {"read", "write"}}

ReadOnly == {{"read"}}
=============================================================================
