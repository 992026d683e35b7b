------------------------------- MODULE Certs --------------------------------
(***************************************************************************)
(* ensure_certs (proxy/cert.py): the files under certs/, written one by    *)
(* one by whichever process finds them missing.  DaemonLife composes it:   *)
(* the makers are the proxy threads and the shells.                        *)
(*                                                                         *)
(* A key is named after the process that generated it; a certificate after *)
(* the key that signed it.  leaf.key and leaf.crt are written between      *)
(* ca.crt and server.pem and read by nobody.                               *)
(***************************************************************************)
CONSTANTS Makers,   \* processes that call ensure_certs
          None      \* no key, no file

VARIABLES
  certs,    \* what is in ca.key, ca.crt and server.pem
  maker,    \* each process inside ensure_certs
  raced     \* some process called it while another was writing

\* A file opened for writing is there, and empty until it is written.
CONSTANT Torn

CertFiles == {"caKey", "caCrt", "serverPem"}

MakerPcs == {"idle", "check", "loadKey", "loadCrt"} \cup CertFiles
            \cup {"done", "failed"}

CertsTypeOK ==
  /\ certs \in [CertFiles -> Makers \cup {None, Torn}]
  /\ maker \in [Makers -> [pc : MakerPcs, ca : Makers \cup {None},
                           open : BOOLEAN]]
  /\ raced \in BOOLEAN

IdleMaker == [pc |-> "idle", ca |-> None, open |-> FALSE]

CertsInit ==
  /\ certs = [f \in CertFiles |-> None]
  /\ maker = [u \in Makers |-> IdleMaker]
  /\ raced = FALSE

Exists(f) == certs[f] # None

Making(u) == maker[u].pc \notin {"idle", "check", "done", "failed"}

\* Mistake: what is there is not looked at.
Check_Regenerates(u) ==
  /\ maker[u].pc = "check"
  /\ maker' = [maker EXCEPT ![u] = [IdleMaker EXCEPT !.pc = "caKey", !.ca = u]]
  /\ raced' = (raced \/ \E v \in Makers \ {u} : Making(v))
  /\ UNCHANGED certs

\* Mistake: a CA key without its certificate is taken for a CA.
Check_KeyAlone(u) ==
  /\ maker[u].pc = "check"
  /\ maker' = [maker EXCEPT ![u] =
       IF Exists("caCrt") /\ Exists("serverPem")
         THEN [IdleMaker EXCEPT !.pc = "done"]
       ELSE IF Exists("caKey")
         THEN [IdleMaker EXCEPT !.pc = "loadKey"]
       ELSE [IdleMaker EXCEPT !.pc = "caKey", !.ca = u]]
  /\ raced' = (raced \/ \E v \in Makers \ {u} : Making(v))
  /\ UNCHANGED certs

\* Files that exist are taken to be whole; nothing is ever removed, so two
\* tests one after the other are as one.
Check(u) ==
  /\ maker[u].pc = "check"
  /\ maker' = [maker EXCEPT ![u] =
       IF Exists("caCrt") /\ Exists("serverPem")
         THEN [IdleMaker EXCEPT !.pc = "done"]
       ELSE IF Exists("caKey") /\ Exists("caCrt")
         THEN [IdleMaker EXCEPT !.pc = "loadKey"]
       ELSE [IdleMaker EXCEPT !.pc = "caKey", !.ca = u]]
  /\ raced' = (raced \/ \E v \in Makers \ {u} : Making(v))
  /\ UNCHANGED certs

Whole(f) == certs[f] \notin {None, Torn}

\* The CA of an earlier call; a file that does not parse raises.
LoadKey(u) ==
  /\ maker[u].pc = "loadKey"
  /\ maker' = [maker EXCEPT ![u] =
       IF Whole("caKey")
       THEN [IdleMaker EXCEPT !.pc = "loadCrt", !.ca = certs["caKey"]]
       ELSE [IdleMaker EXCEPT !.pc = "failed"]]
  /\ UNCHANGED <<certs, raced>>

LoadCrt(u) ==
  /\ maker[u].pc = "loadCrt"
  /\ maker' = [maker EXCEPT ![u] =
       IF Whole("caCrt") THEN [@ EXCEPT !.pc = "serverPem"]
       ELSE [IdleMaker EXCEPT !.pc = "failed"]]
  /\ UNCHANGED <<certs, raced>>

\* write_bytes: the file is opened, which empties it, and then written; the
\* leaf in server.pem is signed with the CA key the process has.
WriteFile(u) ==
  LET f == maker[u].pc IN
  /\ f \in CertFiles
  /\ IF maker[u].open
     THEN /\ certs' = [certs EXCEPT ![f] = maker[u].ca]
          /\ maker' = [maker EXCEPT ![u] =
               CASE f = "caKey" -> [@ EXCEPT !.pc = "caCrt", !.open = FALSE]
                 [] f = "caCrt" -> [@ EXCEPT !.pc = "serverPem", !.open = FALSE]
                 [] f = "serverPem" -> [IdleMaker EXCEPT !.pc = "done"]]
     ELSE /\ certs' = [certs EXCEPT ![f] = Torn]
          /\ maker' = [maker EXCEPT ![u].open = TRUE]
  /\ UNCHANGED raced

MakerStep(u) == Check(u) \/ LoadKey(u) \/ LoadCrt(u) \/ WriteFile(u)

Returned(u) == maker[u].pc = "done"
Raised(u) == maker[u].pc = "failed"

\* A process calls ensure_certs, or ends wherever it is in it.
Call(u) == maker' = [maker EXCEPT ![u] = [IdleMaker EXCEPT !.pc = "check"]]
Leave(u) == maker' = [maker EXCEPT ![u] = IdleMaker]
=============================================================================
