-------------------------- MODULE PlayerAttachment --------------------------
(***************************************************************************)
(* What gates and game promise each other about a player's client: the     *)
(* game serves a player to one session, the newest that logged in, and     *)
(* takes it away only when that session's client has gone or the game has  *)
(* lost the player.                                                        *)
(***************************************************************************)
CONSTANTS Players, Sessions, NoSession

VARIABLES
    attached,   \* the session each player is served to
    gone,       \* sessions whose client has gone
    lost        \* players whose lease the game has lost

attachmentVars == <<attached, gone, lost>>

AttachmentInit ==
    /\ attached = [p \in Players |-> NoSession]
    /\ gone = {}
    /\ lost = {}

Attach(p, s) ==
    /\ attached' = [attached EXCEPT ![p] = s]
    /\ lost' = lost \ {p}
    /\ UNCHANGED gone

Leave(s) ==
    /\ s \notin gone
    /\ gone' = gone \cup {s}
    /\ UNCHANGED <<attached, lost>>

Detach(p) ==
    /\ attached[p] \in gone
    /\ attached' = [attached EXCEPT ![p] = NoSession]
    /\ UNCHANGED <<gone, lost>>

Revoke(p) ==
    /\ attached[p] # NoSession
    /\ attached' = [attached EXCEPT ![p] = NoSession]
    /\ lost' = lost \cup {p}
    /\ UNCHANGED gone

AttachmentNext ==
    \/ \E p \in Players, s \in Sessions : Attach(p, s)
    \/ \E s \in Sessions : Leave(s)
    \/ \E p \in Players : Detach(p) \/ Revoke(p)

AttachmentSpec == AttachmentInit /\ [][AttachmentNext]_attachmentVars
=============================================================================
