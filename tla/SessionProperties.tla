-------------------------- MODULE SessionProperties --------------------------
(***************************************************************************)
(* What makes the session guard correct.                                   *)
(***************************************************************************)
EXTENDS SessionGuard

RequestsOf(c) == {r \in Requests : ClientOf[r] = c}

\* An id belongs to the client of the request that drew it.
OwnerOf(id) == ClientOf[id[1]]

Loaded(r) == pc[r] \notin {"idle", "load"}

\* r's handler still holds a handle on id.
Holds(r, id) == Loaded(r) /\ pc[r] \in Running /\ session[r].id = id

Replied(r) == pc[r] = "done"

-----------------------------------------------------------------------------
(***************************************************************************)
(* Sessions do not bleed between clients (the test                         *)
(* sessions_do_not_bleed_between_clients): whatever requests overlap, get  *)
(* lost or are answered out of order, the cookie, the presented id, the    *)
(* handle, the identity and every entry of a client carry what requests of *)
(* that client wrote, and nothing else.                                    *)
(***************************************************************************)
SessionsIsolated ==
    /\ \A c \in Clients : jar[c] # None => OwnerOf(jar[c].id) = c
    /\ \A r \in Requests :
          /\ presented[r] # None => OwnerOf(presented[r]) = ClientOf[r]
          /\ OwnerOf(session[r].id) = ClientOf[r]
          /\ Writers(session[r].data) \subseteq RequestsOf(ClientOf[r])
          /\ auth[r] # None => ClientOf[auth[r]] = ClientOf[r]
    /\ \A id \in DOMAIN entries :
          Writers(entries[id].data) \subseteq RequestsOf(OwnerOf(id))

(***************************************************************************)
(* Logging in defeats session fixation (session.rs, `regenerate`; the test *)
(* login_rotates_the_id_so_a_fixed_cookie_is_useless): the id a request    *)
(* presented before it logged in never names a session with the subject it *)
(* logged in, not even when other requests are using that id meanwhile.    *)
(* `set_subject` alone does not rotate, and says so.                       *)
(***************************************************************************)
FixationDefeated ==
    \A id \in DOMAIN entries :
        LET subject == entries[id].data.subject
        IN  subject # None => presented[subject] # id

(***************************************************************************)
(* Flash is consumed (session.rs, `age_flash`): once a request that found  *)
(* a flashed value readable has been answered, no entry will hand that     *)
(* value to a later request, whatever stale data requests that overlapped  *)
(* it saved.  A request that rotated its id and then destroyed the session *)
(* leaves the entry it loaded behind: LogoutInvalidates is about that one. *)
(***************************************************************************)
FlashConsumed ==
    \A r \in Requests : Replied(r) /\ ~(session[r].destroyed /\ Rotated(r)) =>
        \A id \in DOMAIN entries : entries[id].data.next \cap readable[r] = {}

(***************************************************************************)
(* A dead id stays dead (auth.rs, "an unknown or expired id starts a fresh *)
(* session"): an id that no entry has and no running request holds never   *)
(* names a session again, however many clients still present it.           *)
(***************************************************************************)
Drawn == UNION {{<<r, n>> : n \in 0 .. draws[r] - 1} : r \in Requests}

Live(id) == id \in DOMAIN entries \/ \E r \in Requests : Holds(r, id)

DeadIdsStayDead == [][\A id \in Drawn : ~Live(id) => ~Live(id)']_vars
-----------------------------------------------------------------------------
(***************************************************************************)
(* Without overlapping requests of one client, an id that a logout or a    *)
(* rotation retired names no entry once the response is out (auth.rs, "the *)
(* old entry is dead once the id rotates"; session.rs, "the store entry is *)
(* removed and the cookie cleared"), and no later request brings it back.  *)
(***************************************************************************)
RetiredIdsGone ==
    \A r \in Requests : Replied(r) /\ session[r].dirty =>
        \/ session[r].destroyed = Rotated(r)
        \/ presented[r] \notin DOMAIN entries

(***************************************************************************)
(* Without overlapping requests a client whose requests were all answered  *)
(* has at most one entry, the one its cookie names: no rotation, logout or *)
(* restart leaves an entry behind that nobody can reach and nobody will    *)
(* remove (the store sweeps nothing).  RetiredIdsGone's exception again.   *)
(***************************************************************************)
NoEntryLeftBehind ==
    \A c \in Clients :
        (\A r \in RequestsOf(c) : \/ pc[r] = "idle"
                                  \/ Replied(r) /\ ~(session[r].destroyed /\ Rotated(r)))
        => \A id \in DOMAIN entries :
              OwnerOf(id) = c => jar[c] # None /\ jar[c].id = id
-----------------------------------------------------------------------------
(***************************************************************************)
(* The guard implements SessionCell for clients that send one request at a *)
(* time: the cell is the entry the client's cookie names, or, between the  *)
(* drop of its old entry and the answer, the entry the answer will name.   *)
(***************************************************************************)
Unanswered(c) ==
    {r \in RequestsOf(c) : /\ pc[r] = "reply" /\ Rotated(r)
                           /\ session[r].dirty /\ ~session[r].destroyed}

CurrentId(c) ==
    IF Unanswered(c) # {} THEN session[CHOOSE r \in Unanswered(c) : TRUE].id
    ELSE CookieOf(c)

CellOf(c) ==
    IF Found(entries, CurrentId(c), clock) THEN entries[CurrentId(c)].data
    ELSE EmptyData

StageOf(r) ==
    CASE pc[r] \in {"idle", "load"} -> "idle"
      [] pc[r] \in {"action", "destroy", "save", "drop"} -> "open"
      [] pc[r] = "reply" ->
            IF session[r].destroyed /\ Rotated(r) THEN "open" ELSE "written"
      [] OTHER -> pc[r]

Cell == INSTANCE SessionCell
            WITH cell  <- [c \in Clients |-> CellOf(c)],
                 copy  <- [r \in Requests |-> session[r].data],
                 ended <- [r \in Requests |-> session[r].destroyed],
                 stage <- [r \in Requests |-> StageOf(r)]

ImplementsCell == Cell!CellSpec
-----------------------------------------------------------------------------
(***************************************************************************)
(* What the documentation promises of logout and flash, without condition. *)
(***************************************************************************)

\* docs/tutorial/17_Sessions.md: "`logout()` destroys the store entry and
\* clears the cookie, so the old value is worthless even if it was captured".
LogoutInvalidates ==
    \A r \in Requests : Replied(r) /\ session[r].destroyed =>
        presented[r] \notin DOMAIN entries

\* session.rs, `flash`: "readable on the *next* request only, then
\* discarded".  No two requests sent one after the other both read it.
FlashReadOnce ==
    \A r, q \in Requests : r # q => readable[r] \cap readable[q] = {}
==============================================================================
