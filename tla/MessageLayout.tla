--------------------------- MODULE MessageLayout ---------------------------
(***************************************************************************)
(* The UbloxSerializer of every message (ublox_msgs, serialization.hpp):   *)
(* the widths of the fields in the order of stream.next(), which is that   *)
(* of the .msg file, the elements that follow them, and what the           *)
(* serializedLength() beside them declares.  The two are written down      *)
(* independently of each other in the source, and are so here.             *)
(*                                                                         *)
(*   head       widths of the fields before the repeated ones              *)
(*   groups     per repeated group, the widths of the fields of an element *)
(*   sizing     how read() knows how many elements there are               *)
(*   base, units  serializedLength() = base + the sum of units * elements  *)
(*   modulus    the number of elements is kept modulo this                 *)
(*   unread, unwritten  fields of the head that read(), write() pass over  *)
(***************************************************************************)
EXTENDS Integers, Sequences

Bytes(n) == [i \in 1 .. n |-> 1]

\* No repeated group; read() and write() take the same fields.
Fixed(widths, length) ==
  [head |-> widths, groups |-> <<>>, sizing |-> "fixed", base |-> length,
   units |-> <<>>, modulus |-> 65536, unread |-> {}, unwritten |-> {}]

Repeated(widths, element, sizing, base, unit) ==
  [Fixed(widths, base) EXCEPT !.groups = <<element>>, !.sizing = sizing,
                              !.units = <<unit>>]

\* A field of the head holds the number of elements.
Counted(widths, element, base, unit) ==
  Repeated(widths, element.head, "counted", base, unit)

\* Elements as long as there is payload.
Rest(widths, element, base, unit) ==
  Repeated(widths, element.head, "rest", base, unit)

\* read() takes as many elements as the object has, whatever the payload holds.
Kept(widths, element, base, unit) == Repeated(widths, element, "kept", base, unit)

\* Eight words in each group, or none.
Words(widths, words, base) ==
  [Fixed(widths, base) EXCEPT !.groups = [g \in DOMAIN words |-> <<words[g]>>],
                              !.sizing = "words", !.units = words]

Word == Fixed(<<4>>, 4)

-----------------------------------------------------------------------------
(* Acknowledgements. *)

Ack == Fixed(<<1, 1>>, 2)

(* Aiding. *)

AidALM == Words(<<4, 4>>, <<4>>, 8)
AidEPH == Words(<<4, 4>>, <<4, 4, 4>>, 8)
\* utc_ls and utc_wnf, the 6th and 7th field, are neither read nor written.
AidHUI ==
  [Fixed(<<4, 8, 8, 4, 2, 2, 2, 2, 2, 2, 4, 4, 4, 4, 4, 4, 4, 4, 4>>, 72)
     EXCEPT !.unread = {6, 7}, !.unwritten = {6, 7}]

(* Configuration. *)

CfgCFG == Fixed(<<4, 4, 4, 1>>, 13)
\* A set message leaves out the number and the name of the datum.
CfgDAT == [Fixed(<<2, 6, 8, 8, 4, 4, 4, 4, 4, 4, 4>>, 44) EXCEPT !.unwritten = {1, 2}]
CfgDGNSS == Fixed(Bytes(4), 4)
CfgGNSSBlock == Fixed(Bytes(4) \o <<4>>, 8)
CfgGNSS == Counted(Bytes(4), CfgGNSSBlock, 4, 8)
CfgINFBlock == Fixed(Bytes(10), 10)
CfgINF == Rest(<<>>, CfgINFBlock, 0, 10)
CfgMSG == Fixed(<<1, 1, 1>>, 3)
CfgNAV5 == Fixed(<<2, 1, 1, 4, 4, 1, 1, 2, 2, 2, 2>> \o Bytes(6) \o <<2>> \o
                 Bytes(6), 36)
CfgNAVX5 == Fixed(<<2, 2, 4>> \o Bytes(10) \o <<2>> \o Bytes(10) \o <<2>> \o
                  Bytes(8), 40)
CfgNMEA == Fixed(Bytes(4) \o <<4>> \o Bytes(12), 20)
CfgNMEA6 == Fixed(Bytes(4), 4)
CfgNMEA7 == Fixed(Bytes(4) \o <<4>> \o Bytes(4), 12)
CfgPRT == Fixed(<<1, 1, 2, 4, 4, 2, 2, 2, 2>>, 20)
CfgRATE == Fixed(<<2, 2, 2>>, 6)
CfgRST == Fixed(<<2, 1, 1>>, 4)
CfgSBAS == Fixed(Bytes(4) \o <<4>>, 8)
CfgTMODE3 == Fixed(<<1, 1, 2, 4, 4, 4>> \o Bytes(4) \o <<4, 4, 4>> \o
                   Bytes(8), 40)
CfgVALDEL == Kept(Bytes(4), <<4>>, 4, 4)
CfgVALGET == [Rest(<<1, 1, 2>>, Word, 4, 4) EXCEPT !.modulus = 256]
\* The values the driver sets are single bytes.
CfgVALSET == Kept(Bytes(4), <<4, 1>>, 4, 5)

(* External sensor fusion. *)

EsfINS == Fixed(<<4>> \o Bytes(4) \o <<4, 4, 4, 4, 4, 4, 4>>, 36)
\* Data words, and a calibration time tag if a flag in the head says so.
EsfMEAS ==
  [Fixed(<<4, 2, 2>>, 4) EXCEPT !.groups = <<<<4>>, <<4>>>>, !.sizing = "flagged",
                                !.units = <<8, 4>>]
EsfRAWBlock == Fixed(<<4, 4>>, 8)
EsfRAW == Rest(<<4>>, EsfRAWBlock, 4, 8)
EsfSTATUSSens == Fixed(Bytes(4), 4)
EsfSTATUS == Counted(<<4, 1, 7, 1, 2, 1>>, EsfSTATUSSens, 16, 4)

(* High rate navigation. *)

HnrPVT == Fixed(<<4, 2>> \o Bytes(6) \o <<4>> \o Bytes(4) \o <<4, 4, 4, 4, 4,
                4, 4, 4, 4, 4, 4, 4>> \o Bytes(4), 72)

(* Information. *)

Inf == Rest(<<>>, Fixed(<<1>>, 1), 0, 1)

(* Monitoring. *)

MonHW == Fixed(<<4, 4, 4, 4, 2, 2>> \o Bytes(4) \o <<4>> \o Bytes(20) \o <<4,
               4, 4>>, 60)
MonHW6 == Fixed(<<4, 4, 4, 4, 2, 2>> \o Bytes(4) \o <<4>> \o Bytes(28) \o <<4,
                4, 4>>, 68)
MonSYS == Fixed(Bytes(8) \o <<4, 2, 2, 2, 2>> \o Bytes(5), 24)
MonVERExtension == Fixed(<<30>>, 30)
MonVER == Rest(<<30, 10>>, MonVERExtension, 40, 30)

(* Navigation. *)

NavATT == Fixed(<<4>> \o Bytes(4) \o <<4, 4, 4, 4, 4, 4>>, 32)
NavCLOCK == Fixed(<<4, 4, 4, 4, 4>>, 20)
NavCOV == Fixed(<<4>> \o Bytes(12) \o <<4, 4, 4, 4, 4, 4, 4, 4, 4, 4, 4, 4>>,
                64)
NavDGPSSV == Fixed(<<1, 1, 2, 4, 4>>, 12)
NavDGPS == Counted(<<4, 4, 2, 2, 1, 1, 2>>, NavDGPSSV, 16, 12)
NavPOSECEF == Fixed(<<4, 4, 4, 4, 4>>, 20)
NavPOSLLH == Fixed(<<4, 4, 4, 4, 4, 4, 4>>, 28)
NavPVT == Fixed(<<4, 2>> \o Bytes(6) \o <<4, 4>> \o Bytes(4) \o <<4, 4, 4, 4,
                4, 4, 4, 4, 4, 4, 4, 4, 4, 2>> \o Bytes(6) \o <<4, 2, 2>>, 92)
NavPVT7 == Fixed(<<4, 2>> \o Bytes(6) \o <<4, 4>> \o Bytes(4) \o <<4, 4, 4, 4,
                 4, 4, 4, 4, 4, 4, 4, 4, 4, 2>> \o Bytes(6), 84)
NavRELPOSNED == Fixed(<<1, 1, 2, 4, 4, 4, 4>> \o Bytes(4) \o <<4, 4, 4, 4>>,
                      40)
NavRELPOSNED9 == Fixed(<<1, 1, 2, 4, 4, 4, 4, 4, 4>> \o Bytes(8) \o <<4, 4, 4,
                       4, 4>> \o Bytes(4) \o <<4>>, 64)
NavSATSV == Fixed(Bytes(4) \o <<2, 2, 4>>, 12)
NavSAT == Counted(<<4, 1, 1, 2>>, NavSATSV, 8, 12)
NavSBASSV == Fixed(Bytes(6) \o <<2, 2, 2>>, 12)
NavSBAS == Counted(<<4, 1, 1, 1, 1, 1, 3>>, NavSBASSV, 12, 12)
NavSOL == Fixed(<<4, 4, 2, 1, 1, 4, 4, 4, 4, 4, 4, 4, 4, 2, 1, 1, 4>>, 52)
NavSTATUS == Fixed(<<4>> \o Bytes(4) \o <<4, 4>>, 16)
NavSVIN == Fixed(Bytes(4) \o <<4, 4, 4, 4, 4>> \o Bytes(4) \o <<4, 4>> \o
                 Bytes(4), 40)
NavSVINFOSV == Fixed(Bytes(6) \o <<2, 4>>, 12)
NavSVINFO == Counted(<<4, 1, 1, 2>>, NavSVINFOSV, 8, 12)
NavVELNED == Fixed(<<4, 4, 4, 4, 4, 4, 4, 4, 4>>, 36)
NavTIMEGPS == Fixed(<<4, 4, 2, 1, 1, 4>>, 16)

(* Receiver manager. *)

RxmALM == Words(<<4, 4>>, <<4>>, 8)
RxmEPH == Words(<<4, 4>>, <<4, 4, 4>>, 8)
RxmRAWSV == Fixed(<<8, 8, 4>> \o Bytes(4), 24)
RxmRAW == Counted(<<4, 2, 1, 1>>, RxmRAWSV, 8, 24)
RxmRAWXMeas == Fixed(<<8, 8, 4>> \o Bytes(4) \o <<2>> \o Bytes(6), 32)
RxmRAWX == Counted(<<8, 2, 1, 1, 1, 1, 2>>, RxmRAWXMeas, 16, 32)
RxmRTCM == Fixed(Bytes(4) \o <<2, 2>>, 8)
RxmSFRB == Fixed(<<1, 1, 4, 4, 4, 4, 4, 4, 4, 4, 4, 4>>, 42)
RxmSFRBX == Counted(Bytes(8), Word, 8, 4)
RxmSVSISV == Fixed(<<1, 1, 2, 1, 1>>, 6)
RxmSVSI == Counted(<<4, 2, 1, 1>>, RxmSVSISV, 8, 6)

(* Timing. *)

TimTM2 == Fixed(<<1, 1, 2, 2, 2, 4, 4, 4, 4, 4>>, 28)

(* Update. *)

UpdSOS == Fixed(Bytes(4), 4)
UpdSOSAck == Fixed(Bytes(8), 8)

-----------------------------------------------------------------------------
\* The message types by name.
Layouts ==
  [Ack |-> Ack, AidALM |-> AidALM, AidEPH |-> AidEPH, AidHUI |-> AidHUI,
   CfgCFG |-> CfgCFG, CfgDAT |-> CfgDAT, CfgDGNSS |-> CfgDGNSS,
   CfgGNSS |-> CfgGNSS, CfgINF |-> CfgINF, CfgMSG |-> CfgMSG,
   CfgNAV5 |-> CfgNAV5, CfgNAVX5 |-> CfgNAVX5, CfgNMEA |-> CfgNMEA,
   CfgNMEA6 |-> CfgNMEA6, CfgNMEA7 |-> CfgNMEA7, CfgPRT |-> CfgPRT,
   CfgRATE |-> CfgRATE, CfgRST |-> CfgRST, CfgSBAS |-> CfgSBAS,
   CfgTMODE3 |-> CfgTMODE3, CfgVALDEL |-> CfgVALDEL, CfgVALGET |-> CfgVALGET,
   CfgVALSET |-> CfgVALSET, EsfINS |-> EsfINS, EsfMEAS |-> EsfMEAS,
   EsfRAW |-> EsfRAW, EsfSTATUS |-> EsfSTATUS, HnrPVT |-> HnrPVT,
   Inf |-> Inf, MonHW |-> MonHW, MonHW6 |-> MonHW6, MonSYS |-> MonSYS,
   MonVER |-> MonVER, NavATT |-> NavATT, NavCLOCK |-> NavCLOCK,
   NavCOV |-> NavCOV, NavDGPS |-> NavDGPS, NavPOSECEF |-> NavPOSECEF,
   NavPOSLLH |-> NavPOSLLH, NavPVT |-> NavPVT, NavPVT7 |-> NavPVT7,
   NavRELPOSNED |-> NavRELPOSNED, NavRELPOSNED9 |-> NavRELPOSNED9,
   NavSAT |-> NavSAT, NavSBAS |-> NavSBAS, NavSOL |-> NavSOL,
   NavSTATUS |-> NavSTATUS, NavSVIN |-> NavSVIN, NavSVINFO |-> NavSVINFO,
   NavVELNED |-> NavVELNED, NavTIMEGPS |-> NavTIMEGPS, RxmALM |-> RxmALM,
   RxmEPH |-> RxmEPH, RxmRAW |-> RxmRAW, RxmRAWX |-> RxmRAWX,
   RxmRTCM |-> RxmRTCM, RxmSFRB |-> RxmSFRB, RxmSFRBX |-> RxmSFRBX,
   RxmSVSI |-> RxmSVSI, TimTM2 |-> TimTM2, UpdSOS |-> UpdSOS,
   UpdSOSAck |-> UpdSOSAck]

=============================================================================
