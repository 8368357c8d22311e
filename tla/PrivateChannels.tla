--------------------------- MODULE PrivateChannels ---------------------------
(***************************************************************************)
(* The private channels of Chat (chat.cpp): each belongs to a player, who  *)
(* invites others to it, and is deleted when its owner closes it or logs   *)
(* out.  A channel keeps the names of those invited, across their logouts, *)
(* and pointers to the players who have it open.  Every action is one      *)
(* Dispatcher task.                                                        *)
(***************************************************************************)
EXTENDS Naturals, FiniteSets, Functions, FiniteSetsExt

CONSTANTS
  Talkers,  \* the players
  Slots     \* the numbers of private channels, 100 and up

ASSUME SlotsAssumption == Slots \subseteq Nat /\ Slots # {}

VARIABLES
  here,    \* players in the world
  owner,   \* m_owner of each channel; its domain is m_privateChannels
  guests,  \* m_invites of each
  open,    \* m_users of each
  torn     \* history: channels that a logout may have left out
channelVars == <<here, owner, guests, open, torn>>

ChannelInit ==
  /\ here = {} /\ torn = {}
  /\ owner = [c \in {} |-> c]
  /\ guests = [c \in Slots |-> {}] /\ open = [c \in Slots |-> {}]

Channels == DOMAIN owner
isInvited(p, c) == p = owner[c] \/ p \in guests[c]

Deleted(c) ==
  /\ owner' = Restrict(owner, Channels \ {c})
  /\ guests' = [guests EXCEPT ![c] = {}]

ComesIn(p) ==
  /\ p \notin here /\ here' = here \cup {p}
  /\ UNCHANGED <<owner, guests, open, torn>>

(* playerCreatePrivateChannel *)
CreatePrivate(p) ==
  /\ p \in here /\ p \notin Range(owner) /\ Channels # Slots
  /\ LET c == Min(Slots \ Channels)
     IN  /\ owner' = [d \in Channels \cup {c} |-> IF d = c THEN p ELSE owner[d]]
         /\ open' = [open EXCEPT ![c] = {p}]
         /\ torn' = torn \ {c}
  /\ UNCHANGED <<here, guests>>

InviteGuest(c, q) ==
  /\ c \in Channels /\ owner[c] \in here /\ q \in here \ ({owner[c]} \cup guests[c])
  /\ guests' = [guests EXCEPT ![c] = @ \cup {q}]
  /\ UNCHANGED <<here, owner, open, torn>>

(* The mutant leaves the channel open to the one who is excluded. *)
ExcludeGuestStays(c, q) ==
  /\ c \in Channels /\ owner[c] \in here /\ q \in here \cap guests[c]
  /\ guests' = [guests EXCEPT ![c] = @ \ {q}]
  /\ UNCHANGED <<here, owner, open, torn>>

ExcludeGuest(c, q) ==
  /\ c \in Channels /\ owner[c] \in here /\ q \in here \cap guests[c]
  /\ guests' = [guests EXCEPT ![c] = @ \ {q}]
  /\ open' = [open EXCEPT ![c] = @ \ {q}]
  /\ UNCHANGED <<here, owner, torn>>

OpenPrivate(p, c) ==
  /\ p \in here /\ c \in Channels /\ isInvited(p, c)
  /\ open' = [open EXCEPT ![c] = @ \cup {p}]
  /\ UNCHANGED <<here, owner, guests, torn>>

(* removeUserFromChannel: the owner's going deletes the channel. *)
ClosePrivate(p, c) ==
  /\ p \in here /\ c \in Channels /\ isInvited(p, c)
  /\ IF p = owner[c]
     THEN Deleted(c) /\ open' = [open EXCEPT ![c] = {}]
     ELSE open' = [open EXCEPT ![c] = @ \ {p}] /\ UNCHANGED <<owner, guests>>
  /\ UNCHANGED <<here, torn>>

(* removeUserFromChannels, at the player's logout.  The loop deletes the
   player's own channel and increments the iterator it has erased: it may go
   on, or stop, and the channels that follow keep a pointer to the player. *)
GoesOut(p) ==
  /\ p \in here /\ here' = here \ {p}
  /\ \/ /\ p \notin Range(owner)
        /\ open' = [c \in Slots |-> open[c] \ {p}]
        /\ UNCHANGED <<owner, guests, torn>>
     \/ \E c \in Channels :
          /\ owner[c] = p /\ Deleted(c)
          /\ \E missed \in {{}, {d \in Channels : d > c /\ p \in open[d]}} :
               /\ open' = [d \in Slots |-> IF d = c THEN {}
                             ELSE IF d \in missed THEN open[d] ELSE open[d] \ {p}]
               /\ torn' = (torn \cup missed) \ {c}

ChannelNext ==
  \E p \in Talkers :
    \/ ComesIn(p) \/ CreatePrivate(p) \/ GoesOut(p)
    \/ \E c \in Slots :
         InviteGuest(c, p) \/ ExcludeGuest(c, p) \/ OpenPrivate(p, c) \/ ClosePrivate(p, c)

ChannelSpec == ChannelInit /\ [][ChannelNext]_channelVars
-----------------------------------------------------------------------------
(* A player owns one channel at most (chat.cpp:1038), and a channel has its
   owner, in the world and among its users, as long as it lives.  Except for
   what a logout leaves out, every user of a channel is in the world, so that
   talking to the channel reaches no Player that was deleted, and is still
   invited. *)
ChannelsInHand ==
  /\ IsInjective(owner)
  /\ \A c \in Channels :
       /\ owner[c] \in here /\ owner[c] \in open[c]
       /\ c \notin torn => \A p \in open[c] : p \in here /\ isInvited(p, c)
  /\ \A c \in Slots \ Channels : open[c] = {} /\ guests[c] = {}
=============================================================================
