------------------------------ MODULE DastBinding ------------------------------
(***************************************************************************)
(* Binding the findings of a DAST scanner to vulnerabilities.  Requests     *)
(* carry a mark; a scan of a pool stores the mark of its vulnerability and  *)
(* looks for DAST findings of the mark (handler_vul), the scanner's push    *)
(* looks for vulnerabilities of its marks and then stores them              *)
(* (DastWebhook.post).  Users edit relations and the settings.              *)
(***************************************************************************)
EXTENDS Naturals

CONSTANTS Vul, Dast, Mark,
          Pushes,   \* pushes: the finding, the vulnerabilities whose uri and type fit, the marks
          Settings, \* settings: validation_status and the vulnerabilities of its strategies
          None

VARIABLES fits,      \* Dast rows: the vulnerabilities fitting the first push; None if no row
          vulMarks,  \* IastvulDtMarkRelation
          dastMarks, \* DastvulDtMarkRelation
          rels,      \* IastDastIntegrationRelation
          setting,   \* the profile "dast_validation_settings"
          hook,      \* the push being handled
          scan,      \* the scan being handled
          apart      \* no push met a scan, no setting and no relation was edited

vars == <<fits, vulMarks, dastMarks, rels, setting, hook, scan, apart>>

Init ==
  /\ fits = [d \in Dast |-> None]
  /\ vulMarks = {} /\ dastMarks = {} /\ rels = {} /\ apart = TRUE
  /\ setting \in Settings \cup {None}
  /\ hook = None /\ scan = None

--------------------------------------------------------------------------------
(* DastWebhook.post.                                                          *)

(* A finding that has a row keeps what its first push said.                   *)
HookRow(p) ==
  /\ hook = None
  /\ fits' = IF fits[p.dast] = None THEN [fits EXCEPT ![p.dast] = p.fits] ELSE fits
  /\ hook' = [push |-> p, left |-> p.marks, known |-> fits[p.dast] # None]
  /\ apart' = (apart /\ scan = None)
  /\ UNCHANGED <<vulMarks, dastMarks, rels, setting, scan>>

(* The strategies filter whether validation is on or not.                     *)
HookMatch(m) ==
  /\ hook # None /\ m \in hook.left
  /\ rels' = rels \cup {<<v, hook.push.dast, m>> :
                v \in {v \in hook.push.fits : /\ <<v, m>> \in vulMarks
                                              /\ setting = None \/ v \in setting.strategies}}
  /\ hook' = [hook EXCEPT !.left = @ \ {m}]
  /\ UNCHANGED <<fits, vulMarks, dastMarks, setting, scan, apart>>

\* Mutant: a finding that has a row is taken to have its marks.
HookStore_New ==
  /\ hook # None /\ hook.left = {}
  /\ dastMarks' = IF hook.known THEN dastMarks ELSE dastMarks \cup ({hook.push.dast} \X hook.push.marks)
  /\ hook' = None
  /\ UNCHANGED <<fits, vulMarks, rels, setting, scan, apart>>

HookStore ==
  /\ hook # None /\ hook.left = {}
  /\ dastMarks' = dastMarks \cup ({hook.push.dast} \X hook.push.marks)
  /\ hook' = None
  /\ UNCHANGED <<fits, vulMarks, rels, setting, scan, apart>>

--------------------------------------------------------------------------------
(* handler_vul, after the vulnerability was saved.                            *)

ScanRead(v, m) ==
  /\ scan = None
  /\ scan' = [vul |-> v, mark |-> m, setting |-> setting, marked |-> FALSE]
  /\ apart' = (apart /\ hook = None)
  /\ UNCHANGED <<fits, vulMarks, dastMarks, rels, setting, hook>>

ScanMark ==
  /\ scan # None /\ ~scan.marked
  /\ vulMarks' = vulMarks \cup {<<scan.vul, scan.mark>>}
  /\ scan' = [scan EXCEPT !.marked = TRUE]
  /\ UNCHANGED <<fits, dastMarks, rels, setting, hook, apart>>

(* The findings are a lazy query: they are read after the mark was stored.    *)
ScanMatch ==
  /\ scan # None /\ scan.marked
  /\ LET filtered == scan.setting # None /\ scan.setting.on /\ scan.vul \notin scan.setting.strategies
         found    == {d \in Dast : <<d, scan.mark>> \in dastMarks /\ scan.vul \in fits[d]}
     IN  rels' = IF filtered THEN rels ELSE rels \cup ({scan.vul} \X found \X {scan.mark})
  /\ scan' = None
  /\ UNCHANGED <<fits, vulMarks, dastMarks, setting, hook, apart>>

--------------------------------------------------------------------------------
(* Users.  The endpoint that deletes findings deletes none.                   *)

CreateRelation(v, d) ==
  /\ fits[d] # None
  /\ rels' = rels \cup {<<v, d, "manully">>}
  /\ UNCHANGED <<fits, vulMarks, dastMarks, setting, hook, scan, apart>>

DeleteRelation(v, d) ==
  /\ \E r \in rels : r[1] = v /\ r[2] = d
  /\ rels' = {r \in rels : ~(r[1] = v /\ r[2] = d)}
  /\ apart' = FALSE
  /\ UNCHANGED <<fits, vulMarks, dastMarks, setting, hook, scan>>

ChangeSetting(s) ==
  /\ setting' = s
  /\ apart' = FALSE
  /\ UNCHANGED <<fits, vulMarks, dastMarks, rels, hook, scan>>

(* get_relative_with_dast_vul: the findings listed as related to v, and as
   candidates for it.  No finding has the mark "manully", so one a user relates
   is listed only if it shares a mark.                                        *)
Shares(v) == {d \in Dast : \E m \in Mark : <<v, m>> \in vulMarks /\ <<d, m>> \in dastMarks}
Relatived(v) == {d \in Shares(v) : \E r \in rels : r[1] = v /\ r[2] = d}

Next ==
  \/ \E p \in Pushes : HookRow(p)
  \/ \E m \in Mark : HookMatch(m)
  \/ HookStore
  \/ \E v \in Vul, m \in Mark : ScanRead(v, m)
  \/ ScanMark
  \/ ScanMatch
  \/ \E v \in Vul, d \in Dast : CreateRelation(v, d) \/ DeleteRelation(v, d)
  \/ \E s \in Settings : ChangeSetting(s)

Spec == Init /\ [][Next]_vars

--------------------------------------------------------------------------------
(* A relation that a push or a scan made is listed for its vulnerability as
   soon as no push is being handled: both sides of it have its mark.          *)
RelationListed ==
  hook = None => \A r \in rels : r[3] # "manully" => r[2] \in Relatived(r[1])

(* Which comes first does not matter: a vulnerability and a finding that share
   a mark are related, if every push of the finding fits the vulnerability, the
   settings do not exclude it, and no push met a scan.                        *)
BoundWhenApart ==
  apart /\ hook = None /\ scan = None =>
    \A v \in Vul : \A d \in Shares(v) :
      /\ \A p \in Pushes : p.dast = d => v \in p.fits
      /\ setting = None \/ v \in setting.strategies
      => d \in Relatived(v)

\* What is promised of the relations together.
RelationsAgree == RelationListed /\ BoundWhenApart
================================================================================
