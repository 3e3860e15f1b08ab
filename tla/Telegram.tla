--------------------------------- MODULE Telegram ---------------------------------
(***************************************************************************)
(* What the ingester can observe of Telegram (external): the channels its  *)
(* one account is a member of, and the join requests it has sent to the    *)
(* owners of gated channels.  Membership is never withdrawn here: the code *)
(* never leaves a channel and has no handler for being removed from one.   *)
(***************************************************************************)
EXTENDS Deployment

VARIABLES member, applied

telegramVars == <<member, applied>>

TelegramTypeOK == member \subseteq Channels /\ applied \subseteq Gated
TelegramInit == member = {} /\ applied = {}

\* JoinChannelRequest, or ImportChatInviteRequest without approval.
Join(c) == member' = member \cup {c} /\ UNCHANGED applied

\* ImportChatInviteRequest answered by InviteRequestSentError.
Apply(c) == applied' = applied \cup {c} /\ UNCHANGED member

\* The owner lets the account in, whenever it suits the owner.
OwnerApproves(c) ==
  /\ c \in applied \ member
  /\ Join(c)
================================================================================
