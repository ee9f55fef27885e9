-------------------------- MODULE MessagesChannel ---------------------------
(***************************************************************************)
(* The buffered Go channel that carries messages from the populator to the *)
(* processor (made in src/cmd/main.go with the configured capacity).       *)
(***************************************************************************)
EXTENDS MessageStore

CONSTANT MessageChannelSize

ASSUME ChannelAssumption == MessageChannelSize \in Nat \ {0}

VARIABLE messagesCh

ChannelTypeOK ==
    /\ messagesCh \in Seq(Offsets)
    /\ Len(messagesCh) <= MessageChannelSize

ChannelInit == messagesCh = <<>>

Full == Len(messagesCh) = MessageChannelSize

\* The two communications the workers' selects wait for.
Put(m) ==
    /\ ~Full
    /\ messagesCh' = Append(messagesCh, m)

Take ==
    /\ messagesCh # <<>>
    /\ messagesCh' = Tail(messagesCh)
=============================================================================
