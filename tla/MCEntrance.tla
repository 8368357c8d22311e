----------------------------- MODULE MCEntrance -----------------------------
(***************************************************************************)
(* How a client gets in and stays in: its connection, the waiting list of  *)
(* a full server, the session of its character, and the session of the     *)
(* JavaScript client that logs in again.                                   *)
(* They share no state but through the outcome of a login, which each      *)
(* module leaves open, so a behaviour exercises one of them and leaves the *)
(* others in their initial states, in which fairness asks for nothing.     *)
(***************************************************************************)
EXTENDS Connection, WaitList, Session, ClientSession

(* Two clients the waiting list treats alike: of two initial states that
   differ in which of them is premium, one is enough. *)
CONSTANTS Elder, Younger

VARIABLE part
entranceVars == <<part, vars, waitVars, sessionVars, clientVars>>

EntranceInit ==
  /\ Init /\ WaitInit /\ SessionInit /\ ClientInit
  /\ part \in {"connection", "waitlist", "session", "client"}
  /\ part = "waitlist" \/ premium = {}
  /\ Younger \in premium => Elder \in premium

EntranceNext ==
  /\ UNCHANGED part
  /\ \/ part = "connection" /\ Next /\ UNCHANGED <<waitVars, sessionVars, clientVars>>
     \/ part = "waitlist" /\ WaitNext /\ UNCHANGED <<vars, sessionVars, clientVars>>
     \/ part = "session" /\ SessionNext /\ UNCHANGED <<vars, waitVars, clientVars>>
     \/ part = "client" /\ ClientNext /\ UNCHANGED <<vars, waitVars, sessionVars>>

EntranceSpec ==
  /\ EntranceInit /\ [][EntranceNext]_entranceVars
  /\ WF_vars(part = "connection" /\ Handler)
  /\ WF_vars(part = "connection" /\ Destroy)
  /\ WF_vars(part = "connection" /\ Fails)
  /\ \A t \in Timers : WF_vars(part = "connection" /\ Expire(t))
  /\ WF_waitVars(part = "waitlist" /\ Tick)
  /\ \A c \in Clients : WF_waitVars(part = "waitlist" /\ told[c] = 0 /\ Login(c))
  /\ WF_waitVars(part = "waitlist" /\ Cardinality(online) >= MaxPlayers
                   /\ \E c \in Clients : Leave(c))
  /\ WF_sessionVars(part = "session" /\ RunTask)
  /\ WF_sessionVars(part = "session" /\ \E c \in connects : Connect(c))
  /\ WF_sessionVars(part = "session" /\ ThinkTimeout /\ owner[inGame] = Nobody)
  /\ WF_clientVars(part = "client" /\ Wake)
  /\ \A g \in Games :
       /\ WF_clientVars(part = "client"
                          /\ (ListAnswers(g) \/ ListFails(g) \/ ListHangs(g)))
       /\ WF_clientVars(part = "client" /\ Rejects(g))
       /\ WF_clientVars(part = "client" /\ g \notin pending
                          /\ link[g] = "open" /\ Closes(g))
=============================================================================
