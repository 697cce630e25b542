------------------------ MODULE MC_CampaignDelivery ------------------------
(***************************************************************************)
(* Small instances of CampaignDelivery, pollers and rows, and of           *)
(* PushProvider, one push after another.                                   *)
(***************************************************************************)
EXTENDS CampaignDelivery, PushProvider

VARIABLE machine

\* A like of a comment that copies the tags of its thread and ends with a tag without
\* a value, one of a video, a reply, a direct message and a video with a malformed
\* reference.
Tag(name, value) == [name |-> name, value |-> value]
Cause(id, kind, own, tags) ==
  [id |-> id, kind |-> kind, author |-> "author", own |-> own, tags |-> tags]
LikeOfComment == Cause("like", "reaction", None,
                       <<Tag("e", "root"), Tag("e", "comment"), Tag("e", None)>>)
LikeOfVideo == Cause("like", "reaction", None, <<Tag("e", "root"), Tag("a", "video1")>>)
Reply == Cause("reply", "comment", None,
               <<Tag("E", "root"), Tag("A", "video1"), Tag("e", "comment")>>)
Wrapped == Cause("dm", "dm", None, <<>>)
Video == Cause("root", "video", "video1", <<Tag("A", "malformed")>>)

SomePushes ==
  {[event |-> LikeOfComment, type |-> "like", collapse |-> "group"],
   [event |-> LikeOfVideo, type |-> "like", collapse |-> None],
   [event |-> Reply, type |-> "comment", collapse |-> None],
   [event |-> Wrapped, type |-> "dm", collapse |-> None],
   [event |-> Video, type |-> "newPost", collapse |-> None]}

Campaigns == machine = "campaign"
Sends == machine = "sends"

BothInit ==
  /\ machine \in {"campaign", "sends"}
  /\ Init
  /\ ProviderInit

BothNext ==
  /\ UNCHANGED machine
  /\ \/ Campaigns /\ Next /\ UNCHANGED providerVars
     \/ Sends /\ ProviderNext /\ UNCHANGED campaignVars

\* The fairness of CampaignDelivery and of PushProvider.
BothFairness ==
  /\ WF_campaignVars(Campaigns /\ Tick)
  /\ \A p \in Poller : WF_campaignVars(Campaigns /\ PollerStep(p))
  /\ \A k \in Key : SF_campaignVars(Campaigns /\ \E p \in Poller : Begin(p, k))
  /\ \A d \in Device : WF_providerVars(Sends /\ StartSend(d))
  /\ \A d \in Device : WF_providerVars(Sends /\ TimeOutSend(d))
  /\ WF_providerVars(Sends /\ TakeResults)
  /\ WF_providerVars(Sends /\ Elapse)

BothSpec ==
  BothInit /\ [][BothNext]_<<machine, campaignVars, providerVars>> /\ BothFairness

\* Every row is settled and every batch of sends ends: see RowsSettle in
\* CampaignDelivery (campaign_delivery.rs:140-159) and BatchesEnd in PushProvider
\* (fcm_sender.rs:40-52).
DeliveriesEnd == (Campaigns => RowsSettle) /\ BatchesEnd
=============================================================================
