----------------------------- MODULE ImportForm -----------------------------
(***************************************************************************)
(* Importing a document from the settings: the form of SettingsModal.svelte*)
(* from choosing a format and a file to the answer of POST /api/import,    *)
(* and the refetch of every store that follows it.                         *)
(*                                                                         *)
(* A document is a file; Good says which formats it reads as, Columns the  *)
(* header of each file.  The server's data is the number of imports it     *)
(* has taken, and all the stores are one.                                  *)
(***************************************************************************)
EXTENDS Integers

CONSTANTS
    Files, Formats, Restoring,  \* Restoring: formats that replace everything
    Good,           \* <<format, file>> pairs the server can read
    Columns,        \* file -> the names in its header
    None,
    MaxActs, MaxServed  \* bounds

VARIABLES
    format, file, source,   \* importFormat, importFile, importSource
    header, mapping,        \* csvHeader, and the columns csvMapping names
    reading,        \* files whose text() has not answered
    asked,          \* the restore being confirmed: its source and format
    importing, result, error,
    sent,           \* requests, each until its refetch is over
    server, shown, fetch,   \* imports taken, imports shown, fetch underway
    gap,            \* history: an answer was lost, failed or older than an import
    acts

vars == <<format, file, source, header, mapping, reading, asked, importing, result, error,
          sent, server, shown, fetch, gap, acts>>
form  == <<source, header, mapping, result, error>>
world == <<sent, server, shown, fetch, gap>>

TypeOK ==
    /\ format \in Formats /\ file \in Files \union {None} /\ source \in Files \union {None}
    /\ header \in Files \union {None} /\ reading \subseteq Files
    /\ importing \in BOOLEAN /\ error \in BOOLEAN
    /\ shown <= server
    /\ importing <=> \E s \in sent : s.mine

Init ==
    /\ format = "todoist-csv" /\ file = None /\ source = None /\ header = None /\ mapping = {}
    /\ reading = {} /\ asked = None /\ importing = FALSE /\ result = None /\ error = FALSE
    /\ sent = {} /\ server = 0 /\ shown = 0 /\ fetch = None /\ gap = FALSE /\ acts = 0

(* A fetch that the server has not served.                                 *)
Begun == -1

Act == acts < MaxActs /\ acts' = acts + 1 /\ asked = None

----------------------------------------------------------------------------
(* The form.                                                               *)

(* Slip: the text that was read stays.                                     *)
KeptOnReset(s)  == s
SourceOnReset(s) == None

ResetImportState ==
    /\ source' = SourceOnReset(source) /\ header' = None /\ mapping' = {}
    /\ result' = None /\ error' = FALSE

HandleImportFormatChange(f) ==
    /\ Act /\ f # format /\ format' = f /\ file' = None /\ ResetImportState
    /\ UNCHANGED <<reading, asked, importing, world>>

HandleImportFile(f) ==
    /\ Act /\ ~importing /\ file' = f /\ ResetImportState
    /\ reading' = (IF f = None THEN reading ELSE reading \union {f})
    /\ UNCHANGED <<format, asked, importing, world>>

(* The text of a file arrives, whatever was chosen meanwhile.              *)
FileRead(f) ==
    /\ f \in reading /\ reading' = reading \ {f} /\ source' = f
    /\ IF format = "csv" THEN header' = f /\ mapping' \in SUBSET Columns[f]
       ELSE UNCHANGED <<header, mapping>>
    /\ UNCHANGED <<format, file, asked, importing, result, error, world, acts>>

SetCsvMappingField(column) ==
    /\ Act /\ format = "csv" /\ header # None /\ column \in Columns[header] /\ column \notin mapping
    /\ mapping' = mapping \union {column}
    /\ UNCHANGED <<format, file, source, header, reading, asked, importing, result, error, world>>

----------------------------------------------------------------------------
(* runImport().                                                            *)

(* Slip: what is sent is read from the form when the question is answered. *)
SourceNow(confirmed)  == source
SourceSent(confirmed) == confirmed

Request(confirmed) ==
    [format |-> format, source |-> SourceSent(confirmed), asked |-> asked,
     mapping |-> IF format = "csv" THEN mapping ELSE {}, mine |-> TRUE, stage |-> "sent"]

Send(confirmed) ==
    /\ importing' = TRUE /\ sent' = sent \union {Request(confirmed)}
    /\ UNCHANGED <<server, shown, fetch, gap>>

(* Slip: a restore does not ask.                                           *)
AsksNever(f) == FALSE
Asks(f)      == f \in Restoring

RunImport ==
    /\ Act /\ ~importing /\ source # None /\ error' = FALSE /\ result' = None
    /\ IF Asks(format) THEN asked' = [format |-> format, source |-> source] /\ UNCHANGED <<importing, world>>
       ELSE Send(source) /\ UNCHANGED asked
    /\ UNCHANGED <<format, file, source, header, mapping, reading>>

ResolveConfirm(ok) ==
    /\ asked # None /\ asked' = None
    /\ IF ok THEN Send(asked.source) ELSE UNCHANGED <<importing, world>>
    /\ UNCHANGED <<format, file, form, reading, acts>>

(* The settings are closed and opened: what is underway goes on.           *)
Reopen ==
    /\ Act /\ format' = "todoist-csv" /\ file' = None /\ ResetImportState /\ reading' = {}
    /\ importing' = FALSE /\ sent' = {[s EXCEPT !.mine = FALSE] : s \in sent}
    /\ UNCHANGED <<asked, server, shown, fetch, gap>>

----------------------------------------------------------------------------
(* The server, the answer, and the refetch.                                *)
At(s, stage) == sent' = (sent \ {s}) \union {[s EXCEPT !.stage = stage]}

Serve(s) ==
    /\ s.stage = "sent" /\ server < MaxServed
    /\ IF <<s.format, s.source>> \in Good THEN server' = server + 1 /\ At(s, "done")
       ELSE UNCHANGED server /\ At(s, "refused")
    /\ UNCHANGED <<format, file, form, reading, asked, importing, shown, fetch, gap, acts>>

(* It went wrong, here or on the way.                                      *)
Failed(s) ==
    /\ s.stage # "refetch" /\ sent' = sent \ {s} /\ gap' = (gap \/ s.stage = "done")
    /\ IF s.mine THEN error' = TRUE /\ importing' = FALSE ELSE UNCHANGED <<error, importing>>
    /\ UNCHANGED <<format, file, source, header, mapping, reading, asked, result, server, shown, fetch, acts>>

(* Slip: the stores are refetched only while the settings are open.        *)
RefetchesHere(s) == s.mine
Refetches(s)     == TRUE

(* The import was taken.  A fetch that is underway is joined, and may have *)
(* read the rows before the import.                                        *)
Answered(s) ==
    /\ s.stage = "done"
    /\ result' = IF s.mine THEN [format |-> s.format, source |-> s.source] ELSE result
    /\ IF Refetches(s)
       THEN /\ At(s, "refetch")
            /\ fetch' = IF fetch = None THEN Begun ELSE fetch
            /\ gap' = (gap \/ fetch \notin {None, Begun, server})
            /\ UNCHANGED importing
       ELSE sent' = sent \ {s} /\ importing' = (importing /\ ~s.mine) /\ UNCHANGED <<fetch, gap>>
    /\ UNCHANGED <<format, file, source, header, mapping, reading, asked, error, server, shown, acts>>

(* A tag is renamed, merged or deleted in another tab: the tasks are       *)
(* fetched again, which a fetch that is under way does already.            *)
OnTagRenamed ==
    /\ acts < MaxActs /\ acts' = acts + 1 /\ fetch = None /\ fetch' = Begun
    /\ UNCHANGED <<format, file, form, reading, asked, importing, sent, server, shown, gap>>

FetchServed ==
    /\ fetch = Begun /\ fetch' = server
    /\ UNCHANGED <<format, file, form, reading, asked, importing, sent, server, shown, gap, acts>>

(* A fetch that failed is only logged; the import is over either way.      *)
FetchOver(ok) ==
    /\ fetch # None /\ (ok => fetch # Begun) /\ fetch' = None
    /\ IF ok THEN shown' = fetch /\ UNCHANGED gap ELSE gap' = TRUE /\ UNCHANGED shown
    /\ sent' = {s \in sent : s.stage # "refetch"}
    /\ importing' = (\E s \in sent' : s.mine)
    /\ UNCHANGED <<format, file, form, reading, asked, server, acts>>

Next ==
    \/ \E f \in Formats : HandleImportFormatChange(f)
    \/ \E f \in Files \union {None} : HandleImportFile(f)
    \/ \E f \in Files : FileRead(f)
    \/ \E c \in UNION {Columns[f] : f \in Files} : SetCsvMappingField(c)
    \/ RunImport \/ Reopen \/ OnTagRenamed \/ FetchServed
    \/ \E ok \in BOOLEAN : ResolveConfirm(ok) \/ FetchOver(ok)
    \/ \E s \in sent : Serve(s) \/ Failed(s) \/ Answered(s)

Spec == Init /\ [][Next]_vars

----------------------------------------------------------------------------
(* The mapping that is shown and sent is of the header of the text that is *)
(* imported, however the files were read.                                  *)
MappingFits ==
    /\ format = "csv" /\ source # None => header = source /\ mapping \subseteq Columns[header]
    /\ \A s \in sent : s.mapping \subseteq Columns[s.source]

(* A document that replaces everything is only sent once its own replacing *)
(* was agreed to: not another one that was read under the question.        *)
RestoreAgreed ==
    \A s \in sent : s.format \in Restoring => s.asked = [format |-> s.format, source |-> s.source]

(* When everything is quiet the import is on screen, whether the settings  *)
(* are still open or not, unless an answer was lost or older than it.      *)
ImportSeen == sent = {} /\ fetch = None /\ ~gap => shown = server

(* The text to import is that of the file that is chosen.  It is not when  *)
(* a file is still being read while another, or a format, is chosen.       *)
SourceIsFile == source # None => source = file

(* What is reported is of the format that is shown.  It is not when the    *)
(* format is changed before the answer.                                    *)
ResultIsShown == result # None => result.format = format
=============================================================================
