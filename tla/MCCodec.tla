------------------------------ MODULE MCCodec ------------------------------
(***************************************************************************)
(* The messages for model checking MessageCodec.                           *)
(***************************************************************************)
EXTENDS MessageCodec

\* The almanac and ephemeris words.
WordTypes == {"AidALM", "AidEPH", "RxmALM", "RxmEPH"}

\* Messages whose read() and .msg file, or length, part ways; see the README.
Unfaithful ==
  WordTypes \cup {"AidHUI", "MonSYS", "EsfMEAS", "CfgVALSET", "CfgVALDEL"}

\* CFG-DAT is answered in the long form and set in the short one.
ReceivedTypes == DOMAIN Layouts \ Unfaithful

\* What the driver configures the receiver with.
ComposedTypes ==
  {"CfgCFG", "CfgDAT", "CfgDGNSS", "CfgGNSS", "CfgINF", "CfgMSG", "CfgNAV5",
   "CfgNAVX5", "CfgNMEA", "CfgNMEA6", "CfgNMEA7", "CfgPRT", "CfgRATE", "CfgRST",
   "CfgSBAS", "CfgTMODE3", "CfgVALSET", "UpdSOS"}

\* What the theorems of MessageCodec_proofs suppose of the types holds of these.
ASSUME FaithfulTypes ==
  /\ \A t \in ReceivedTypes : ReadAsSent(Layouts[t])
  /\ \A t \in ComposedTypes : DeclaredAsWritten(Layouts[t])

=============================================================================
