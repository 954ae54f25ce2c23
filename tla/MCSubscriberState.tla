-------------------------- MODULE MCSubscriberState --------------------------
(* Instances of SubscriberState for TLC. *)
EXTENDS SubscriberState, TLC

Sub(deliveries, guarantees, handles, throws) ==
    [delivery : deliveries, guarantee : guarantees, handle : handles, throws : throws]

(* Every policy and guarantee; copies into the mailbox may throw in some. *)
Varied == Sub({"concurrent", "serialized"}, {"best_effort"}, {"owner", "callback"}, {FALSE})
          \cup Sub({"isolated"}, {"lossless"}, {"owner", "callback"}, {FALSE})
          \cup Sub({"isolated"}, {"best_effort"}, {"callback"}, {TRUE})

(* An isolated subscription that its callback unsubscribes. *)
SelfLeaving == Sub({"isolated"}, {"best_effort"}, {"callback"}, {FALSE})
=============================================================================
