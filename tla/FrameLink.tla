----------------------------- MODULE FrameLink -----------------------------
(***************************************************************************)
(* What README.md section 3 makes of the UART: a link that delivers the    *)
(* commands of the master to MQTT, each once, in order, none left out.     *)
(***************************************************************************)
EXTENDS Sequences, Naturals

CONSTANT Commands

VARIABLES sent, delivered

linkVars == <<sent, delivered>>

LinkInit == sent = <<>> /\ delivered = <<>>

Send(command) ==
    /\ sent' = Append(sent, command)
    /\ UNCHANGED delivered

Deliver ==
    /\ Len(delivered) < Len(sent)
    /\ delivered' = Append(delivered, sent[Len(delivered) + 1])
    /\ UNCHANGED sent

LinkNext == (\E command \in Commands : Send(command)) \/ Deliver

LinkSafety == LinkInit /\ [][LinkNext]_linkVars
LinkSpec == LinkSafety /\ WF_linkVars(Deliver)

=============================================================================
