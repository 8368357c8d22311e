--------------------------- MODULE RuleViolations ----------------------------
(***************************************************************************)
(* Reports of rule violations: Game::ruleViolations, the handlers that     *)
(* open, process, continue, close and cancel a report, and the channel in  *)
(* which gamemasters read them (CHANNEL_RVR).  A report points to its      *)
(* reporter and to the gamemaster who answers it.  Every action is one     *)
(* Dispatcher task.                                                        *)
(***************************************************************************)
EXTENDS FiniteSets, Functions

CONSTANTS
  Visitors,  \* the players
  Nil,       \* no gamemaster
  Freed      \* a Player that was deleted

ASSUME NilAssumption == Nil \notin Visitors /\ Freed \notin Visitors \cup {Nil}

VARIABLES
  present,  \* players in the world
  staff,    \* those with PlayerFlag_CanAnswerRuleViolations
  answers,  \* ruleViolations: the gamemaster of each reporter's report, Nil
            \* while it is open
  watching, \* m_users of the channel
  window,   \* the reports that the client of each player shows
  whole,    \* players whose window was filled by sendRuleViolationsChannel
  demoted   \* history: a gamemaster lost the flag while answering
reportVars == <<present, staff, answers, watching, window, whole, demoted>>

ReportInit ==
  /\ present = {} /\ staff \in SUBSET Visitors /\ watching = {} /\ whole = {}
  /\ answers = [p \in {} |-> p]
  /\ window = [p \in Visitors |-> {}] /\ demoted = FALSE

Open == {p \in DOMAIN answers : answers[p] = Nil}

(* Each user of the channel is told that the reports R are gone. *)
Told(R) == [p \in Visitors |-> IF p \in watching THEN window[p] \ R ELSE window[p]]

Arrives(p) ==
  /\ p \notin present /\ present' = present \cup {p}
  /\ UNCHANGED <<staff, answers, watching, window, whole, demoted>>

(* playerReportRuleViolation: an earlier report of the player is cancelled. *)
Report(p) ==
  /\ p \in present
  /\ answers' = [q \in DOMAIN answers \cup {p} |-> IF q = p THEN Nil ELSE answers[q]]
  /\ window' = [q \in Visitors |->
                 IF q \in watching THEN window[q] \cup {p} ELSE window[q]]
  /\ UNCHANGED <<present, staff, watching, whole, demoted>>

(* playerProcessRuleViolation *)
Process(g, p) ==
  /\ g \in present \cap staff /\ p \in Open
  /\ answers' = [answers EXCEPT ![p] = g]
  /\ window' = Told({p})
  /\ UNCHANGED <<present, staff, watching, whole, demoted>>

(* playerCloseRuleViolation, which anybody may call, and
   playerCancelRuleViolation, of the reporter. *)
Finish(p) ==
  /\ p \in DOMAIN answers
  /\ answers' = Restrict(answers, DOMAIN answers \ {p})
  /\ window' = Told({p})
  /\ UNCHANGED <<present, staff, watching, whole, demoted>>

Watch(p) ==
  /\ p \in present \cap staff
  /\ watching' = watching \cup {p}
  /\ window' = [window EXCEPT ![p] = Open] /\ whole' = whole \cup {p}
  /\ UNCHANGED <<present, staff, answers, demoted>>

Unwatch(p) ==
  /\ p \in watching \cap staff
  /\ watching' = watching \ {p}
  /\ window' = [window EXCEPT ![p] = {}] /\ whole' = whole \ {p}
  /\ UNCHANGED <<present, staff, answers, demoted>>

(* A new client takes the player over: reOpenChannels opens the channel again,
   without its reports. *)
Reattach(p) ==
  /\ p \in present
  /\ window' = [window EXCEPT ![p] = {}] /\ whole' = whole \ {p}
  /\ UNCHANGED <<present, staff, answers, watching, demoted>>

(* The group of a player changes. *)
Regroup(p) ==
  /\ p \in present
  /\ staff' = IF p \in staff THEN staff \ {p} ELSE staff \cup {p}
  /\ demoted' = (demoted \/ p \in staff \cap Range(answers))
  /\ UNCHANGED <<present, answers, watching, window, whole>>

(* onCreatureDisappear: the player's report is cancelled, those a gamemaster
   answers are closed, and the channel is left.  In the mutant they are not
   closed. *)
DepartUnanswered(p) ==
  /\ p \in present /\ present' = present \ {p}
  /\ answers' = [q \in DOMAIN answers \ {p} |->
                  IF answers[q] = p THEN Freed ELSE answers[q]]
  /\ window' = [Told({p}) EXCEPT ![p] = {}]
  /\ watching' = watching \ {p} /\ whole' = whole \ {p}
  /\ UNCHANGED <<staff, demoted>>

Depart(p) ==
  /\ p \in present /\ present' = present \ {p}
  /\ LET closed == {p} \cup (IF p \in staff THEN {q \in DOMAIN answers : answers[q] = p} ELSE {})
     IN  /\ answers' = [q \in DOMAIN answers \ closed |->
                         IF answers[q] = p THEN Freed ELSE answers[q]]
         /\ window' = [Told(closed) EXCEPT ![p] = {}]
  /\ watching' = watching \ {p} /\ whole' = whole \ {p}
  /\ UNCHANGED <<staff, demoted>>

ReportNext ==
  \E p \in Visitors :
    \/ Arrives(p) \/ Report(p) \/ Finish(p) \/ Watch(p) \/ Unwatch(p)
    \/ Reattach(p) \/ Regroup(p) \/ Depart(p)
    \/ \E g \in Visitors : Process(g, p)

ReportSpec == ReportInit /\ [][ReportNext]_reportVars
-----------------------------------------------------------------------------
(* A report belongs to a player in the world and, once it is processed, to a
   gamemaster in the world, whom playerContinueReport and cancelRuleViolation
   send to: logging out leaves no pointer behind, unless a gamemaster loses
   the flag that the logout asks for while a report is in answer.  And the
   gamemasters who watch the channel see the open reports, no report that was
   taken, cancelled or closed, and all of them unless their client came back
   after the channel was opened. *)
ReportsInHand ==
  /\ \A p \in DOMAIN answers :
       /\ p \in present
       /\ answers[p] \in present \cup {Nil} \cup (IF demoted THEN {Freed} ELSE {})
  /\ \A p \in watching :
       window[p] \subseteq Open /\ (p \in whole => window[p] = Open)
=============================================================================
