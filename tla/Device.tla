------------------------------- MODULE Device -------------------------------
(***************************************************************************)
(* The services of one device that share no state in the code, beside each *)
(* other.  Nothing they do touches another, so the order of their steps    *)
(* says nothing: a behaviour is one of the component `part'.               *)
(***************************************************************************)
EXTENDS Chunker, Onboarding, SecureChannel, Discovery

VARIABLE part

DeviceVars == <<part, chunkerVars, walletVars, uiVars, exchangeVars, discoveryVars>>

DeviceInit ==
    /\ part \in {"chunker", "wallet", "onboarding", "channel", "discovery"}
    /\ ChunkerInit /\ UiInit /\ ExchangeInit /\ DiscoveryInit

DeviceNext ==
    /\ UNCHANGED part
    /\ \/ /\ part = "chunker" /\ ChunkerNext
          /\ UNCHANGED <<walletVars, uiVars, exchangeVars, discoveryVars>>
       \/ /\ part = "wallet" /\ Next
          /\ UNCHANGED <<chunkerVars, uiVars, exchangeVars, discoveryVars>>
       \/ /\ part = "onboarding" /\ UiNext
          /\ UNCHANGED <<chunkerVars, exchangeVars, discoveryVars>>
       \/ /\ part = "channel" /\ ExchangeNext
          /\ UNCHANGED <<chunkerVars, walletVars, uiVars, discoveryVars>>
       \/ /\ part = "discovery" /\ DiscoveryNext
          /\ UNCHANGED <<chunkerVars, walletVars, uiVars, exchangeVars>>

DeviceSpec == DeviceInit /\ [][DeviceNext]_DeviceVars

\* Every component keeps its types.
DeviceTypeOK ==
    /\ ChunkerTypeOK
    /\ TypeOK /\ UiTypeOK
    /\ ExchangeTypeOK
    /\ DiscoveryTypeOK
=============================================================================
