----------------------------- MODULE MCRoomSync -----------------------------
(***************************************************************************)
(* Finite instances of RoomSync.                                           *)
(***************************************************************************)
EXTENDS RoomSync

\* A copy path is the pair of the original path and the content.
MCCopyPath(p, v) == <<p, v>>

\* The local template (version 0) is extended by every later version.
MCExtends(r, l) == l = 0
=============================================================================
