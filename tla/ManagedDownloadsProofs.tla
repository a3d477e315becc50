----------------------- MODULE ManagedDownloadsProofs -----------------------
(***************************************************************************)
(* Theorems of ManagedDownloads, for every library, workload and setting.  *)
(***************************************************************************)
EXTENDS ManagedDownloads, FiniteSetTheorems, TLAPS

-----------------------------------------------------------------------------
(* Type correctness: what the operators the actions share preserve, then   *)
(* one lemma per action that needs more than those.                        *)

LEMMA NoCallType == NoCall \in Call
<1>1. FirstSource \in Source
  BY ConstantsAssumption DEF FirstSource
<1> QED
  BY <1>1, ConstantsAssumption DEF NoCall, Call, PC

LEMMA CallType ==
  ASSUME TypeOK, NEW r \in Request
  PROVE  /\ call[r] \in Call
         /\ call[r].source \in Source /\ call[r].victim \in Torrent
         /\ call[r].rows \subseteq Source /\ call[r].lease \subseteq Source
         /\ call[r].done \subseteq Source
         /\ call[r].plan \subseteq Torrent /\ call[r].spared \subseteq Torrent
         /\ Route(r) \in Torrent
BY ConstantsAssumption DEF TypeOK, Call, Route

LEMMA UpdateType ==
  ASSUME TypeOK, NEW r \in Request, NEW c \in Call, call' = [call EXCEPT ![r] = c]
  PROVE  call' \in [Request -> Call]
BY DEF TypeOK

LEMMA ReturnType ==
  ASSUME TypeOK, NEW r \in Request, Return(r)
  PROVE  call' \in [Request -> Call]
BY NoCallType DEF TypeOK, Return

LEMMA GotoType ==
  ASSUME TypeOK, NEW r \in Request, NEW pc \in PC, Goto(r, pc)
  PROVE  call' \in [Request -> Call]
BY DEF TypeOK, Goto, Call

LEMMA BeginType ==
  ASSUME TypeOK, NEW r \in Request, NEW op \in Operation, NEW pc \in PC, NEW s \in Source,
         Begin(r, op, pc, s)
  PROVE  call' \in [Request -> Call]
BY NoCallType, ConstantsAssumption DEF TypeOK, Begin, Call

LEMMA SaveType ==
  ASSUME TypeOK, NEW s \in Source, NEW lease, NEW done, SaveDownload(s, lease, done)
  PROVE  managed' \subseteq Source /\ leased' \subseteq Source /\ complete' \subseteq Source
BY DEF TypeOK, SaveDownload, With

\* A step that copies rows into the local variables of a call.
LEMMA CopyType ==
  ASSUME TypeOK, NEW r \in Request, NEW pc \in PC,
         NEW rows \in SUBSET Source, NEW lease \in SUBSET Source, NEW done \in SUBSET Source,
         \/ call' = [call EXCEPT ![r].pc = pc, ![r].rows = rows, ![r].done = done]
         \/ call' = [call EXCEPT ![r].pc = pc, ![r].lease = lease, ![r].done = done]
         \/ call' = [call EXCEPT ![r].pc = pc, ![r].rows = rows, ![r].lease = lease, ![r].done = done]
  PROVE  call' \in [Request -> Call]
<1>1. \A q \in Request : call[q] \in Call
  BY DEF TypeOK
<1>2. CASE call' = [call EXCEPT ![r].pc = pc, ![r].rows = rows, ![r].done = done]
  <2>1. call' = [call EXCEPT ![r] = [call[r] EXCEPT !.pc = pc, !.rows = rows, !.done = done]]
    BY <1>2 DEF TypeOK, Call
  <2>2. [call[r] EXCEPT !.pc = pc, !.rows = rows, !.done = done] \in Call
    BY <1>1 DEF Call
  <2> QED
    BY <2>1, <2>2, UpdateType
<1>3. CASE call' = [call EXCEPT ![r].pc = pc, ![r].lease = lease, ![r].done = done]
  <2>1. call' = [call EXCEPT ![r] = [call[r] EXCEPT !.pc = pc, !.lease = lease, !.done = done]]
    BY <1>3 DEF TypeOK, Call
  <2>2. [call[r] EXCEPT !.pc = pc, !.lease = lease, !.done = done] \in Call
    BY <1>1 DEF Call
  <2> QED
    BY <2>1, <2>2, UpdateType
<1>4. CASE call' = [call EXCEPT ![r].pc = pc, ![r].rows = rows, ![r].lease = lease, ![r].done = done]
  <2>1. call' = [call EXCEPT ![r] = [call[r] EXCEPT !.pc = pc, !.rows = rows, !.lease = lease, !.done = done]]
    BY <1>4 DEF TypeOK, Call
  <2>2. [call[r] EXCEPT !.pc = pc, !.rows = rows, !.lease = lease, !.done = done] \in Call
    BY <1>1 DEF Call
  <2> QED
    BY <2>1, <2>2, UpdateType
<1> QED
  BY <1>2, <1>3, <1>4

LEMMA InitType == Init => TypeOK
<1> SUFFICES ASSUME Init PROVE TypeOK
  OBVIOUS
<1>1. load \in Load
  BY ConstantsAssumption DEF Init
<1>2. managed \subseteq Source /\ complete \subseteq Source
  BY <1>1 DEF Init, Load
<1>3. engine \subseteq Torrent
  BY <1>2, ConstantsAssumption DEF Init
<1>4. call \in [Request -> Call]
  BY NoCallType DEF Init
<1>5. leased \subseteq Source /\ paused \subseteq Torrent
  BY DEF Init
<1>6. selected \subseteq Source /\ onDisk \subseteq Source /\ load \in Workload
  BY <1>2 DEF Init
<1> QED
  BY <1>2, <1>3, <1>4, <1>5, <1>6 DEF TypeOK

LEMMA InspectType == ASSUME TypeOK, NEW r \in Request, Inspect(r) PROVE TypeOK'
<1>1. CASE Route(r) \in engine
  <2> DEFINE rows == RowsOf(Route(r)) \cup {call[r].source}
             done == FilesOf(Route(r)) \cap onDisk
  <2>1. rows \in SUBSET Source /\ done \in SUBSET Source
    BY CallType DEF TypeOK, RowsOf
  <2>2. call' = [call EXCEPT ![r].pc = "select", ![r].rows = rows, ![r].done = done]
    BY <1>1 DEF Inspect
  <2> HIDE DEF rows, done
  <2>3. call' \in [Request -> Call]
    <3>1. "select" \in PC
      BY DEF PC
    <3> QED
      BY <2>1, <2>2, <3>1, CopyType
  <2> QED
    BY <1>1, <2>3 DEF Inspect, TypeOK, rowVars
<1>2. CASE Route(r) \notin engine
  <2>1. "lease" \in PC
    BY DEF PC
  <2>2. call' \in [Request -> Call]
    BY <1>2, <2>1, ReturnType, GotoType DEF Inspect
  <2> QED
    BY <1>2, <2>2 DEF Inspect, TypeOK, rowVars
<1> QED
  BY <1>1, <1>2

LEMMA FindDownloadType == ASSUME TypeOK, NEW r \in Request, FindDownload(r) PROVE TypeOK'
<1> DEFINE s == call[r].source
<1>1. CASE s \notin managed
  <2>1. call' = [call EXCEPT ![r].op = "prepare", ![r].pc = "adopt"]
    BY <1>1 DEF FindDownload
  <2> QED
    BY <2>1 DEF FindDownload, TypeOK, rowVars, engineVars, Call, PC, Operation
<1>2. CASE s \in managed /\ CompletedLocal(s, complete)
  BY <1>2, ReturnType DEF FindDownload, TypeOK, rowVars, engineVars
<1>3. CASE s \in managed /\ ~CompletedLocal(s, complete)
  <2> DEFINE lease == leased \cap {s}
             done == complete \cap {s}
  <2>1. call' = [call EXCEPT ![r].op = "prepare", ![r].pc = "inspect",
                             ![r].lease = lease, ![r].done = done]
    BY <1>3 DEF FindDownload
  <2>2. lease \subseteq Source /\ done \subseteq Source
    BY DEF TypeOK
  <2> HIDE DEF lease, done
  <2> QED
    BY <2>1, <2>2 DEF FindDownload, TypeOK, rowVars, engineVars, Call, PC, Operation
<1> QED
  BY <1>1, <1>2, <1>3

LEMMA AdoptSiblingType == ASSUME TypeOK, NEW r \in Request, AdoptSibling(r) PROVE TypeOK'
<1>1. UNCHANGED <<rowVars, engineVars, load>>
  BY DEF AdoptSibling
<1>2. CASE RowsOf(Route(r)) = {}
  BY <1>1, <1>2, GotoType DEF AdoptSibling, AdmissionPC, PC, TypeOK, rowVars, engineVars
<1>3. CASE RowsOf(Route(r)) # {} /\ Route(r) \in engine
  <2> DEFINE done == FilesOf(Route(r)) \cap onDisk
  <2>1. call' = [call EXCEPT ![r].pc = "adopted", ![r].lease = {}, ![r].done = done]
    BY <1>3 DEF AdoptSibling
  <2>2. done \in SUBSET Source
    BY DEF TypeOK
  <2> HIDE DEF done
  <2> QED
    <3>1. "adopted" \in PC /\ {} \in SUBSET Source
      BY DEF PC
    <3>2. call' \in [Request -> Call]
      BY <2>1, <2>2, <3>1, CopyType
    <3> QED
      BY <1>1, <3>2 DEF TypeOK, rowVars, engineVars
<1>4. CASE RowsOf(Route(r)) # {} /\ Route(r) \notin engine
  BY <1>1, <1>4, ReturnType DEF AdoptSibling, TypeOK, rowVars, engineVars
<1> QED
  BY <1>2, <1>3, <1>4

LEMMA ListFilesType == ASSUME TypeOK, NEW r \in Request, ListFiles(r) PROVE TypeOK'
<1>1. CASE Route(r) \in engine
  <2> DEFINE extra == IF call[r].op = "season" THEN FilesOf(Route(r)) ELSE {call[r].source}
             rows == RowsOf(Route(r)) \cup extra
             done == FilesOf(Route(r)) \cap onDisk
  <2>1. rows \in SUBSET Source /\ done \in SUBSET Source
    BY CallType DEF TypeOK, RowsOf, FilesOf
  <2>2. call' = [call EXCEPT ![r].pc = "apply", ![r].rows = rows, ![r].done = done]
    BY <1>1 DEF ListFiles
  <2> HIDE DEF rows, done
  <2> QED
    BY <2>1, <2>2 DEF ListFiles, TypeOK, rowVars, engineVars, Call, PC
<1>2. CASE Route(r) \notin engine
  BY <1>2, ReturnType DEF ListFiles, TypeOK, rowVars, engineVars
<1> QED
  BY <1>1, <1>2

LEMMA AddTorrentType == ASSUME TypeOK, NEW r \in Request, AddTorrent(r) PROVE TypeOK'
BY CallType, GotoType DEF AddTorrent, TypeOK, rowVars, PC

LEMMA RecordDownloadType == ASSUME TypeOK, NEW r \in Request, RecordDownload(r) PROVE TypeOK'
<1>1. managed' \subseteq Source /\ leased' \subseteq Source /\ complete' \subseteq Source
  BY CallType, SaveType DEF RecordDownload
<1> QED
  BY <1>1, ReturnType DEF RecordDownload, TypeOK, engineVars

LEMMA ListForgetType == ASSUME TypeOK, NEW r \in Request, ListForget(r) PROVE TypeOK'
<1>1. RowsOf(call[r].victim) \in SUBSET Source
  BY DEF RowsOf, TypeOK
<1>2. "delete" \in PC
  BY DEF PC
<1> DEFINE c == [call[r] EXCEPT !.pc = "delete", !.rows = RowsOf(call[r].victim)]
<1>3. c \in Call
  <2>1. call[r] \in Call
    BY CallType
  <2> QED
    BY <2>1, <1>1, <1>2 DEF Call
<1>4. call' = [call EXCEPT ![r] = c]
  BY DEF ListForget
<1> HIDE DEF c
<1>5. call' \in [Request -> Call]
  BY <1>3, <1>4, UpdateType
<1> QED
  BY <1>5 DEF ListForget, TypeOK, rowVars, engineVars

LEMMA DeleteRowType == ASSUME TypeOK, NEW r \in Request, DeleteRow(r) PROVE TypeOK'
<1> PICK s \in call[r].rows :
      /\ managed' = managed \ {s} /\ leased' = leased \ {s} /\ complete' = complete \ {s}
      /\ IF s \in managed THEN call' = [call EXCEPT ![r].rows = @ \ {s}] ELSE Return(r)
  BY DEF DeleteRow
<1>1. call' \in [Request -> Call]
  <2>1. CASE s \in managed
    BY <2>1 DEF TypeOK, Call
  <2>2. CASE s \notin managed
    BY <2>2, ReturnType
  <2> QED
    BY <2>1, <2>2
<1> QED
  BY <1>1 DEF DeleteRow, TypeOK, engineVars

LEMMA RefreshRowType == ASSUME TypeOK, NEW r \in Request, RefreshRow(r) PROVE TypeOK'
<1> PICK s \in call[r].rows :
      /\ SaveDownload(s, s \in call[r].lease,
                      IF TorrentOf[s] \in engine THEN s \in onDisk ELSE s \in call[r].done)
      /\ call' = [call EXCEPT ![r].rows = @ \ {s}]
  BY DEF RefreshRow
<1>1. managed' \subseteq Source /\ leased' \subseteq Source /\ complete' \subseteq Source
  BY CallType, SaveType
<1>2. call' \in [Request -> Call]
  BY DEF TypeOK, Call
<1> QED
  BY <1>1, <1>2 DEF RefreshRow, TypeOK, engineVars

LEMMA RewriteRowType == ASSUME TypeOK, NEW r \in Request, RewriteRow(r) PROVE TypeOK'
<1> PICK s \in call[r].rows :
      /\ SaveDownload(s, s \in call[r].lease, s \in call[r].done)
      /\ call' = [call EXCEPT ![r].rows = @ \ {s}]
  BY DEF RewriteRow
<1>1. managed' \subseteq Source /\ leased' \subseteq Source /\ complete' \subseteq Source
  BY CallType, SaveType
<1>2. call' \in [Request -> Call]
  BY DEF TypeOK, Call
<1> QED
  BY <1>1, <1>2 DEF RewriteRow, TypeOK, engineVars

LEMMA ListRouteType == ASSUME TypeOK, NEW r \in Request, ListRoute(r) PROVE TypeOK'
<1>1. RowsOf(Route(r)) \in SUBSET Source
  BY DEF RowsOf, TypeOK
<1>2. "rewrite" \in PC
  BY DEF PC
<1>3. call' \in [Request -> Call]
  <2>1. leased \in SUBSET Source /\ complete \in SUBSET Source
    BY DEF TypeOK
  <2> QED
    BY <1>1, <1>2, <2>1, CopyType DEF ListRoute
<1> QED
  BY <1>3 DEF ListRoute, TypeOK, rowVars, engineVars

LEMMA SetLeaseType == ASSUME TypeOK, NEW r \in Request, SetLease(r) PROVE TypeOK'
BY CallType, NoCallType, ReturnType, GotoType, ConstantsAssumption
   DEF SetLease, TypeOK, rowVars, engineVars, Goto, Return, Call, PC, Route, With, SaveDownload, FilesOf, AdmissionPC

LEMMA SelectFilesType == ASSUME TypeOK, NEW r \in Request, SelectFiles(r) PROVE TypeOK'
<1>1. CASE Route(r) \in engine
  <2> DEFINE pc == IF At(r, "select") THEN "save"
                   ELSE IF call[r].op = "season" THEN "rewrite" ELSE "record"
             rows == IF pc = "rewrite" THEN FilesOf(Route(r)) ELSE {}
  <2>0. pc \in PC /\ rows \in SUBSET Source
    BY DEF PC, FilesOf
  <2>1. /\ call' = [call EXCEPT ![r].pc = pc, ![r].rows = rows]
        /\ selected' = (selected \ FilesOf(Route(r))) \cup call[r].rows
    BY <1>1 DEF SelectFiles
  <2> HIDE DEF pc, rows
  <2> DEFINE c == [call[r] EXCEPT !.pc = pc, !.rows = rows]
  <2>4. c \in Call
    BY <2>0, CallType DEF Call
  <2>5. call' = [call EXCEPT ![r] = c]
    BY <2>1
  <2> HIDE DEF c
  <2>2. call' \in [Request -> Call]
    BY <2>4, <2>5, UpdateType
  <2>3. selected' \subseteq Source
    BY <2>1, CallType DEF TypeOK
  <2> QED
    BY <2>2, <2>3 DEF SelectFiles, TypeOK, rowVars
<1>2. CASE Route(r) \notin engine
  BY <1>2, ReturnType DEF SelectFiles, TypeOK, rowVars
<1> QED
  BY <1>1, <1>2

LEMMA SaveManagedType == ASSUME TypeOK, NEW r \in Request, SaveManaged(r) PROVE TypeOK'
BY CallType, NoCallType, ReturnType, GotoType, ConstantsAssumption
   DEF SaveManaged, TypeOK, rowVars, engineVars, Goto, Return, Call, PC, Route, With, SaveDownload, FilesOf, AdmissionPC

LEMMA SaveAdoptedType == ASSUME TypeOK, NEW r \in Request, SaveAdopted(r) PROVE TypeOK'
BY CallType, NoCallType, ReturnType, GotoType, ConstantsAssumption
   DEF SaveAdopted, TypeOK, rowVars, engineVars, Goto, Return, Call, PC, Route, With, SaveDownload, FilesOf, AdmissionPC

LEMMA FindSeasonType == ASSUME TypeOK, NEW r \in Request, FindSeason(r) PROVE TypeOK'
<1> DEFINE pc == IF RowsOf(Route(r)) # {} THEN "files" ELSE AdmissionPC
<1>1. pc \in PC
  BY DEF PC, AdmissionPC
<1>2. Goto(r, pc)
  BY DEF FindSeason
<1> HIDE DEF pc
<1>3. call' \in [Request -> Call]
  BY <1>1, <1>2, GotoType
<1> QED
  BY <1>3 DEF FindSeason, TypeOK, rowVars, engineVars

LEMMA SurveyRowsType == ASSUME TypeOK, NEW r \in Request, SurveyRows(r) PROVE TypeOK'
<1> DEFINE spared == {t \in Torrent : RowsProtect(t)}
           seen == Watched
           c == [call[r] EXCEPT !.pc = "sample", !.rows = managed, !.plan = {},
                                !.spared = spared, !.seen = seen]
<1>1. spared \in SUBSET Torrent /\ seen \in SUBSET Source /\ managed \in SUBSET Source
  BY DEF TypeOK, Watched
<1>2. call' = [call EXCEPT ![r] = c]
  BY DEF SurveyRows
<1> HIDE DEF spared, seen
<1>3. c \in Call
  <2>1. "sample" \in PC /\ {} \in SUBSET Torrent
    BY DEF PC
  <2>2. call[r] \in Call
    BY CallType
  <2> QED
    BY <1>1, <2>1, <2>2 DEF Call
<1> HIDE DEF c
<1>4. call' \in [Request -> Call]
  BY <1>2, <1>3, UpdateType
<1> QED
  BY <1>4 DEF SurveyRows, TypeOK, rowVars, engineVars

LEMMA SampleRouteType == ASSUME TypeOK, NEW r \in Request, SampleRoute(r) PROVE TypeOK'
<1>1. PICK rows, plan, spared :
        /\ rows \in SUBSET Source /\ plan \in SUBSET Torrent /\ spared \in SUBSET Torrent
        /\ call' = [call EXCEPT ![r].rows = rows, ![r].plan = plan, ![r].spared = spared]
  <2>1. PICK s, known :
          /\ s \in call[r].rows
          /\ known = {TorrentOf[s]} \cap engine
          /\ call' = [call EXCEPT ![r].rows = @ \ FilesOf(TorrentOf[s]), ![r].plan = @ \cup known,
                        ![r].spared = @ \cup {u \in known : ProtectIncomplete /\ StatusIncomplete(u)}]
    BY DEF SampleRoute
  <2>2. PICK busy : busy = {u \in known : ProtectIncomplete /\ StatusIncomplete(u)}
    OBVIOUS
  <2>3. known \subseteq Torrent /\ busy \subseteq Torrent
    BY <2>1, <2>2 DEF TypeOK
  <2> DEFINE rows == call[r].rows \ FilesOf(TorrentOf[s])
             plan == call[r].plan \cup known
             spared == call[r].spared \cup busy
  <2>4. rows \in SUBSET Source /\ plan \in SUBSET Torrent /\ spared \in SUBSET Torrent
    BY <2>3, CallType
  <2>5. call' = [call EXCEPT ![r].rows = rows, ![r].plan = plan, ![r].spared = spared]
    BY <2>1, <2>2
  <2> QED
    BY <2>4, <2>5
<1> DEFINE c == [call[r] EXCEPT !.rows = rows, !.plan = plan, !.spared = spared]
<1>2. c \in Call
  <2>1. call[r] \in Call
    BY CallType
  <2> QED
    BY <1>1, <2>1 DEF Call
<1>3. call' = [call EXCEPT ![r] = c]
  BY <1>1
<1> HIDE DEF c
<1>4. call' \in [Request -> Call]
  BY <1>2, <1>3, UpdateType
<1> QED
  BY <1>4 DEF SampleRoute, TypeOK, rowVars, engineVars

LEMMA ChooseType == ASSUME TypeOK, NEW r \in Request, Choose(r) PROVE TypeOK'
<1>1. \/ Goto(r, "add") \/ Return(r)
      \/ \E t \in call[r].plan : call' = [call EXCEPT ![r].pc = "evict", ![r].victim = t]
  BY DEF Choose
<1>2. call' \in [Request -> Call]
  <2>1. CASE Goto(r, "add")
    <3>1. "add" \in PC
      BY DEF PC
    <3> QED
      BY <2>1, <3>1, GotoType
  <2>2. CASE Return(r)
    BY <2>2, ReturnType
  <2>3. ASSUME NEW t \in call[r].plan, call' = [call EXCEPT ![r].pc = "evict", ![r].victim = t]
        PROVE  call' \in [Request -> Call]
    <3> DEFINE c == [call[r] EXCEPT !.pc = "evict", !.victim = t]
    <3>1. "evict" \in PC
      BY DEF PC
    <3>2. t \in Torrent /\ call[r] \in Call
      BY CallType
    <3>3. c \in Call
      BY <3>1, <3>2 DEF Call
    <3>4. call' = [call EXCEPT ![r] = c]
      BY <2>3
    <3> HIDE DEF c
    <3> QED
      BY <3>3, <3>4, UpdateType
  <2> QED
    BY <1>1, <2>1, <2>2, <2>3
<1> QED
  BY <1>2 DEF Choose, TypeOK, rowVars, engineVars

LEMMA EngineRemoveType == ASSUME TypeOK, NEW r \in Request, EngineRemove(r) PROVE TypeOK'
BY CallType, NoCallType, ReturnType, GotoType, ConstantsAssumption
   DEF EngineRemove, TypeOK, rowVars, engineVars, Goto, Return, Call, PC, Route, With, SaveDownload, FilesOf, AdmissionPC

LEMMA ForgottenType == ASSUME TypeOK, NEW r \in Request, Forgotten(r) PROVE TypeOK'
BY CallType, NoCallType, ReturnType, GotoType, ConstantsAssumption
   DEF Forgotten, TypeOK, rowVars, engineVars, Goto, Return, Call, PC, Route, With, SaveDownload, FilesOf, AdmissionPC

LEMMA WrittenType == ASSUME TypeOK, NEW r \in Request, Written(r) PROVE TypeOK'
BY CallType, NoCallType, ReturnType, GotoType, ConstantsAssumption
   DEF Written, TypeOK, rowVars, engineVars, Goto, Return, Call, PC, Route, With, SaveDownload, FilesOf, AdmissionPC

LEMMA ListDownloadsType == ASSUME TypeOK, NEW r \in Request, ListDownloads(r) PROVE TypeOK'
<1> DEFINE c == [NoCall EXCEPT !.op = "poll", !.pc = "refresh", !.rows = managed,
                               !.lease = leased, !.done = complete]
<1>1. c \in Call
  <2>1. "poll" \in Operation /\ "refresh" \in PC
    BY DEF Operation, PC
  <2>2. managed \in SUBSET Source /\ leased \in SUBSET Source /\ complete \in SUBSET Source
    BY DEF TypeOK
  <2> QED
    BY <2>1, <2>2, NoCallType DEF Call
<1> QED
  BY <1>1, UpdateType DEF ListDownloads, TypeOK, rowVars, engineVars

LEMMA AcquireType == ASSUME TypeOK, NEW r \in Request, NEW s \in Source, Acquire(r, s) PROVE TypeOK'
<1> DEFINE lease == leased \cap {s}
           done == complete \cap {s}
           pc == IF CompletedLocal(s, complete) THEN "lease" ELSE "inspect"
           c == [NoCall EXCEPT !.op = "stream", !.source = s, !.victim = TorrentOf[s],
                               !.lease = lease, !.done = done, !.pc = pc]
<1>1. call' = [call EXCEPT ![r] = c]
  BY DEF Acquire
<1>2. c \in Call
  <2>1. "stream" \in Operation /\ pc \in PC
    BY DEF Operation, PC
  <2>2. TorrentOf[s] \in Torrent /\ lease \in SUBSET Source /\ done \in SUBSET Source
    BY ConstantsAssumption
  <2> HIDE DEF lease, done, pc
  <2> QED
    BY <2>1, <2>2, NoCallType DEF Call
<1> QED
  BY <1>1, <1>2, UpdateType DEF Acquire, TypeOK, rowVars, engineVars

LEMMA RemoveType == ASSUME TypeOK, NEW r \in Request, NEW s \in Source, Remove(r, s) PROVE TypeOK'
<1> DEFINE seen == Watched
           c == [NoCall EXCEPT !.op = "remove", !.pc = "evict", !.source = s,
                               !.victim = TorrentOf[s], !.seen = seen]
<1>1. call' = [call EXCEPT ![r] = c]
  BY DEF Remove
<1>2. c \in Call
  <2>1. "remove" \in Operation /\ "evict" \in PC
    BY DEF Operation, PC
  <2>2. TorrentOf[s] \in Torrent /\ seen \in SUBSET Source
    BY ConstantsAssumption DEF Watched, TypeOK
  <2> HIDE DEF seen
  <2> QED
    BY <2>1, <2>2, NoCallType DEF Call
<1> QED
  BY <1>1, <1>2, UpdateType DEF Remove, TypeOK, rowVars, engineVars

LEMMA StartType ==
  ASSUME TypeOK, NEW r \in Request, Start(r)
  PROVE  TypeOK'
<1> USE DEF TypeOK, rowVars, engineVars
<1>1. CASE StartRetention(r)
  BY <1>1, BeginType, ConstantsAssumption DEF StartRetention, FirstSource, PC, Operation
<1>2. CASE ListDownloads(r)
  BY <1>2, ListDownloadsType
<1>3. ASSUME NEW s \in Source, Acquire(r, s) PROVE TypeOK'
  BY <1>3, AcquireType
<1>4. ASSUME NEW s \in Source, StartPrepare(r, s) PROVE TypeOK'
  BY <1>4, BeginType DEF StartPrepare, PC, Operation
<1>5. ASSUME NEW s \in Source, StartSeason(r, s) PROVE TypeOK'
  BY <1>5, BeginType DEF StartSeason, PC, Operation
<1>6. ASSUME NEW s \in Source, Remove(r, s) PROVE TypeOK'
  BY <1>6, RemoveType
<1>7. ASSUME NEW s \in Source, NEW op \in {"pause", "resume", "retry"}, Toggle(r, op, s) PROVE TypeOK'
  <2>1. call' \in [Request -> Call]
    BY <1>7, BeginType DEF Toggle, PC, Operation
  <2>2. paused' \subseteq Torrent
    BY <1>7, ConstantsAssumption DEF Toggle
  <2> QED
    BY <1>7, <2>1, <2>2 DEF Toggle
<1>8. Asks(r) \subseteq Source
  BY ConstantsAssumption DEF Asks, Load
<1> QED
  BY <1>1, <1>2, <1>3, <1>4, <1>5, <1>6, <1>7, <1>8 DEF Start

LEMMA StepTypes == ASSUME TypeOK, NEW r \in Request, Step(r) PROVE TypeOK'
BY SetLeaseType, InspectType, SelectFilesType, SaveManagedType, FindDownloadType,
   AdoptSiblingType, SaveAdoptedType, FindSeasonType, AddTorrentType, ListFilesType,
   RecordDownloadType, SurveyRowsType, SampleRouteType, ChooseType, EngineRemoveType, ListForgetType, DeleteRowType,
   ForgottenType, RefreshRowType, ListRouteType, RewriteRowType, WrittenType
   DEF Step

LEMMA EnvironmentType ==
  ASSUME TypeOK,
         \/ \E r \in Request : Release(r) \/ Fail(r)
         \/ \E s \in Source : FinishFile(s)
         \/ \E t \in Torrent : Vanish(t)
         \/ Crash
  PROVE  TypeOK'
<1> USE DEF TypeOK, rowVars, engineVars
<1>1. ASSUME NEW r \in Request, Release(r) PROVE TypeOK'
  BY <1>1, ReturnType DEF Release
<1>2. ASSUME NEW r \in Request, Fail(r) PROVE TypeOK'
  BY <1>2, ReturnType DEF Fail
<1>3. ASSUME NEW s \in Source, FinishFile(s) PROVE TypeOK'
  BY <1>3 DEF FinishFile
<1>4. ASSUME NEW t \in Torrent, Vanish(t) PROVE TypeOK'
  BY <1>4 DEF Vanish
<1>5. CASE Crash
  BY <1>5, NoCallType DEF Crash
<1> QED
  BY <1>1, <1>2, <1>3, <1>4, <1>5

\* Every variable stays in its domain, whatever the calls do to each other.
THEOREM TypeCorrect == Spec => []TypeOK
<1>1. Init => TypeOK
  BY InitType
<1>2. TypeOK /\ [Next]_vars => TypeOK'
  <2>1. ASSUME TypeOK, Next PROVE TypeOK'
    BY <2>1, StartType, StepTypes, EnvironmentType DEF Next
  <2>2. ASSUME TypeOK, UNCHANGED vars PROVE TypeOK'
    BY <2>2 DEF TypeOK, vars
  <2> QED
    BY <2>1, <2>2
<1> QED
  BY <1>1, <1>2, PTL DEF Spec

-----------------------------------------------------------------------------
(* The leases of isolated streams.  LeaseExact is not inductive: that a save *)
(* writes no stale lease depends on what each call is, whose source it owns  *)
(* and what it copied, which Served adds.                                    *)

Exact == leased = {s \in managed : \E r \in Request : Streaming(r, s)}

ServedPC(op) ==
    CASE op = "stream" -> {"inspect", "select", "save", "lease", "streaming"}
      [] op = "prepare" -> {"prepare", "adopt", "adopted", "survey", "sample", "evict", "forget", "delete",
                            "add", "files", "apply", "record", "inspect", "select", "save"}
      [] op = "retain" -> {"survey", "sample", "evict", "forget", "delete"}
      [] OTHER -> {"evict", "forget", "delete"}

Owns(r) == call[r].op \in {"stream", "prepare"}

Served(r) ==
    \/ At(r, "idle")
    \/ /\ call[r].op \in May(r)
       /\ call[r].pc \in ServedPC(call[r].op)
       /\ Owns(r) => call[r].source \in Asks(r)
       /\ call[r].pc \in {"adopted", "inspect", "select", "save"} => call[r].lease = {}

LeaseInv == Isolated => Exact /\ \A r \in Request : Served(r)

\* A goroutine that streams or prepares a source is the only one to do so.
LEMMA Exclusive ==
  ASSUME LeaseInv, Isolated, NEW r \in Request, NEW q \in Request, r # q,
         ~At(r, "idle"), Owns(r)
  PROVE  ~Streaming(q, call[r].source)
<1> SUFFICES ASSUME Streaming(q, call[r].source) PROVE FALSE
  OBVIOUS
<1>1. call[q].op \in May(q) /\ call[q].pc \in ServedPC(call[q].op) /\ call[q].pc = "streaming"
  BY DEF LeaseInv, Served, Streaming, At
<1>2. call[q].op = "stream"
  BY <1>1 DEF ServedPC
<1>3. Viewer(q) /\ Viewer(r)
  BY <1>1, <1>2 DEF Viewer, LeaseInv, Served, Owns
<1>4. call[r].source \in Asks(q) /\ call[r].source \in Asks(r)
  BY <1>1, <1>2 DEF LeaseInv, Served, Owns, Streaming, At
<1> QED
  BY <1>3, <1>4 DEF Isolated

\* Others(r): a step of r leaves the calls of the other goroutines alone.
Others(r) == \A q \in Request : q # r => call'[q] = call[q]

LEMMA QuietStep ==
  ASSUME Exact, NEW r \in Request, Others(r), UNCHANGED <<managed, leased>>,
         ~At(r, "streaming"), ~At(r, "streaming")'
  PROVE  Exact'
<1>1. \A q \in Request : \A s : Streaming(q, s)' <=> Streaming(q, s)
  BY DEF Streaming, At, Others
<1> QED
  BY <1>1 DEF Exact

LEMMA SaveStep ==
  ASSUME Exact, NEW r \in Request, NEW s, NEW done, Others(r), SaveDownload(s, FALSE, done),
         ~At(r, "streaming"), ~At(r, "streaming")',
         \A q \in Request : ~Streaming(q, s)
  PROVE  Exact'
<1>1. \A q \in Request : \A u : Streaming(q, u)' <=> Streaming(q, u)
  BY DEF Streaming, At, Others
<1>2. managed' = managed \cup {s} /\ leased' = leased \ {s}
  BY DEF SaveDownload, With
<1> QED
  BY <1>1, <1>2 DEF Exact

LEMMA ServedOthers ==
  ASSUME LeaseInv, Isolated, NEW r \in Request, Others(r), load' = load, Served(r)'
  PROVE  \A q \in Request : Served(q)'
BY DEF LeaseInv, Served, Others, At, Owns, May, Asks

LEMMA IsolatedSame == ASSUME load' = load PROVE Isolated' <=> Isolated
BY DEF Isolated, Viewer, May, Asks

\* What a step of goroutine r has to show.
LEMMA LeaseStep ==
  ASSUME LeaseInv, NEW r \in Request, load' = load, Others(r),
         Isolated => Exact' /\ Served(r)'
  PROVE  LeaseInv'
BY ServedOthers, IsolatedSame DEF LeaseInv

LEMMA UpdateOthers ==
  ASSUME TypeOK, NEW r \in Request, NEW c, call' = [call EXCEPT ![r] = c]
  PROVE  Others(r) /\ call'[r] = c
BY DEF TypeOK, Others

LEMMA GotoOthers ==
  ASSUME TypeOK, NEW r \in Request, NEW pc, Goto(r, pc)
  PROVE  Others(r) /\ call'[r] = [call[r] EXCEPT !.pc = pc]
BY DEF TypeOK, Others, Goto

LEMMA ReturnOthers ==
  ASSUME TypeOK, NEW r \in Request, Return(r)
  PROVE  Others(r) /\ At(r, "idle")' /\ Served(r)'
BY DEF TypeOK, Others, Return, At, NoCall, Served

\* What the steps of the survey make of the record of their call.
SameCall(r) ==
    /\ call'[r].op = call[r].op /\ call'[r].source = call[r].source
    /\ call'[r].lease = call[r].lease /\ call'[r].done = call[r].done

LEMMA SurveyRowsShape ==
  ASSUME TypeOK, NEW r \in Request, SurveyRows(r)
  PROVE  /\ Others(r) /\ At(r, "survey") /\ SameCall(r) /\ call'[r].victim = call[r].victim
         /\ call'[r].pc = "sample" /\ call'[r].rows = managed /\ call'[r].plan = {}
         /\ call'[r].spared = {t \in Torrent : RowsProtect(t)} /\ call'[r].seen = Watched
<1>1. PICK spared, seen : spared = {t \in Torrent : RowsProtect(t)} /\ seen = Watched
  OBVIOUS
<1>2. call' = [call EXCEPT ![r].pc = "sample", ![r].rows = managed, ![r].plan = {},
                           ![r].spared = spared, ![r].seen = seen]
  BY <1>1 DEF SurveyRows
<1>3. PICK c : /\ c = [call[r] EXCEPT !.pc = "sample", !.rows = managed, !.plan = {},
                                      !.spared = spared, !.seen = seen]
               /\ Others(r) /\ call'[r] = c
  BY <1>2 DEF Others, TypeOK, Call
<1>4. call[r] \in Call
  BY DEF TypeOK
<1>5. /\ c.op = call[r].op /\ c.source = call[r].source /\ c.lease = call[r].lease
      /\ c.done = call[r].done /\ c.victim = call[r].victim
      /\ c.pc = "sample" /\ c.rows = managed /\ c.plan = {} /\ c.spared = spared /\ c.seen = seen
  BY <1>3, <1>4 DEF Call
<1> QED
  BY <1>1, <1>3, <1>5 DEF SameCall, SurveyRows

LEMMA SampleRouteShape ==
  ASSUME TypeOK, NEW r \in Request, SampleRoute(r)
  PROVE  \E s \in call[r].rows :
           /\ First(call[r].rows, s)
           /\ Others(r) /\ At(r, "sample") /\ SameCall(r) /\ call'[r].victim = call[r].victim
           /\ call'[r].pc = "sample" /\ call'[r].seen = call[r].seen
           /\ call'[r].rows = call[r].rows \ FilesOf(TorrentOf[s])
           /\ call'[r].plan = call[r].plan \cup ({TorrentOf[s]} \cap engine)
           /\ call[r].spared \subseteq call'[r].spared
<1>1. PICK s, known :
        /\ s \in call[r].rows /\ First(call[r].rows, s) /\ At(r, "sample")
        /\ known = {TorrentOf[s]} \cap engine
        /\ call' = [call EXCEPT ![r].rows = @ \ FilesOf(TorrentOf[s]), ![r].plan = @ \cup known,
                      ![r].spared = @ \cup {u \in known : ProtectIncomplete /\ StatusIncomplete(u)}]
  BY DEF SampleRoute
<1>2. PICK busy, files : /\ busy = {u \in known : ProtectIncomplete /\ StatusIncomplete(u)}
                         /\ files = FilesOf(TorrentOf[s])
  OBVIOUS
<1>3. call' = [call EXCEPT ![r].rows = @ \ files, ![r].plan = @ \cup known, ![r].spared = @ \cup busy]
  BY <1>1, <1>2
<1>4. PICK c : /\ c = [call[r] EXCEPT !.rows = @ \ files, !.plan = @ \cup known, !.spared = @ \cup busy]
               /\ Others(r) /\ call'[r] = c
  BY <1>3 DEF Others, TypeOK, Call
<1>5. call[r] \in Call
  BY DEF TypeOK
<1>6. /\ c.op = call[r].op /\ c.source = call[r].source /\ c.lease = call[r].lease
      /\ c.done = call[r].done /\ c.victim = call[r].victim /\ c.pc = call[r].pc
      /\ c.rows = call[r].rows \ files /\ c.plan = call[r].plan \cup known
      /\ c.spared = call[r].spared \cup busy /\ c.seen = call[r].seen
  BY <1>4, <1>5 DEF Call
<1> QED
  BY <1>1, <1>2, <1>4, <1>6 DEF SameCall, At

LEMMA ChooseShape ==
  ASSUME TypeOK, NEW r \in Request, Choose(r)
  PROVE  /\ At(r, "sample") /\ call[r].rows = {}
         /\ \/ Goto(r, "add") /\ call[r].op # "retain"
            \/ Return(r)
            \/ /\ Others(r) /\ SameCall(r) /\ call'[r].pc = "evict"
               /\ call'[r].rows = call[r].rows /\ call'[r].seen = call[r].seen
               /\ call'[r].plan = call[r].plan /\ call'[r].spared = call[r].spared
               /\ call'[r].victim \in call[r].plan \ call[r].spared
<1>1. ASSUME NEW t \in call[r].plan \ call[r].spared,
             call' = [call EXCEPT ![r].pc = "evict", ![r].victim = t]
      PROVE  /\ Others(r) /\ SameCall(r) /\ call'[r].pc = "evict"
             /\ call'[r].rows = call[r].rows /\ call'[r].seen = call[r].seen
             /\ call'[r].plan = call[r].plan /\ call'[r].spared = call[r].spared
             /\ call'[r].victim = t
  <2>1. PICK c : c = [call[r] EXCEPT !.pc = "evict", !.victim = t] /\ Others(r) /\ call'[r] = c
    BY <1>1 DEF Others, TypeOK, Call
  <2>2. call[r] \in Call
    BY DEF TypeOK
  <2>3. /\ c.op = call[r].op /\ c.source = call[r].source /\ c.lease = call[r].lease
        /\ c.done = call[r].done /\ c.pc = "evict" /\ c.victim = t /\ c.rows = call[r].rows
        /\ c.plan = call[r].plan /\ c.spared = call[r].spared /\ c.seen = call[r].seen
    BY <2>1, <2>2 DEF Call
  <2> QED
    BY <2>1, <2>3 DEF SameCall
<1>2. \/ Goto(r, "add") /\ call[r].op # "retain"
      \/ Return(r)
      \/ \E t \in call[r].plan \ call[r].spared : call' = [call EXCEPT ![r].pc = "evict", ![r].victim = t]
  BY DEF Choose
<1> QED
  BY <1>1, <1>2 DEF Choose

LEMMA RemoveShape ==
  ASSUME TypeOK, NEW r \in Request, NEW s, Remove(r, s)
  PROVE  /\ Others(r) /\ At(r, "idle") /\ "remove" \in May(r)
         /\ call'[r].op = "remove" /\ call'[r].pc = "evict" /\ call'[r].source = s
         /\ call'[r].victim = TorrentOf[s] /\ call'[r].seen = Watched
         /\ call'[r].rows = {} /\ call'[r].lease = {} /\ call'[r].done = {}
         /\ s \in managed /\ ~RouteLeased(TorrentOf[s])
<1>1. PICK seen : seen = Watched
  OBVIOUS
<1>2. PICK c : /\ c = [NoCall EXCEPT !.op = "remove", !.pc = "evict", !.source = s,
                                     !.victim = TorrentOf[s], !.seen = seen]
               /\ Others(r) /\ call'[r] = c
  BY <1>1, UpdateOthers DEF Remove
<1>3. /\ c.op = "remove" /\ c.pc = "evict" /\ c.source = s /\ c.victim = TorrentOf[s] /\ c.seen = seen
      /\ c.rows = {} /\ c.lease = {} /\ c.done = {}
  BY <1>2 DEF NoCall
<1> QED
  BY <1>1, <1>2, <1>3 DEF Remove

\* A step within a call that touches no row.
LEMMA KeptStep ==
  ASSUME TypeOK, LeaseInv, NEW r \in Request, Others(r), SameCall(r),
         UNCHANGED <<managed, leased, load>>,
         ~At(r, "streaming"), ~At(r, "idle"), call'[r].pc # "streaming",
         Isolated => /\ call'[r].pc \in ServedPC(call[r].op)
                     /\ call'[r].pc \notin {"adopted", "inspect", "select", "save"}
  PROVE  LeaseInv'
<1>1. ASSUME Isolated PROVE Exact' /\ Served(r)'
  <2>1. ~At(r, "streaming")'
    BY DEF At
  <2>2. Exact'
    BY <1>1, <2>1, QuietStep DEF LeaseInv
  <2>3. Served(r)'
    BY <1>1 DEF LeaseInv, Served, At, Owns, May, Asks, SameCall
  <2> QED
    BY <2>2, <2>3
<1> QED
  BY <1>1, LeaseStep

\* A step that only moves r between steps of its own call and touches no row.
LEMMA MoveStep ==
  ASSUME TypeOK, LeaseInv, NEW r \in Request, NEW pc \in PC, Goto(r, pc), UNCHANGED <<managed, leased, load>>,
         ~At(r, "streaming"), ~At(r, "idle"), pc # "streaming",
         Isolated => pc \in ServedPC(call[r].op) /\ pc \notin {"adopted", "inspect", "select", "save"}
  PROVE  LeaseInv'
<1>1. Others(r) /\ call'[r] = [call[r] EXCEPT !.pc = pc]
  BY GotoOthers
<1>2. call[r] \in Call
  BY DEF TypeOK
<1>3. call'[r].pc = pc /\ call'[r].op = call[r].op /\ call'[r].source = call[r].source
  BY <1>1, <1>2 DEF Call
<1>4. ASSUME Isolated PROVE Exact' /\ Served(r)'
  <2>1. ~At(r, "streaming")'
    BY <1>3 DEF At
  <2>2. Exact'
    BY <1>1, <1>4, <2>1, QuietStep DEF LeaseInv
  <2>3. Served(r)'
    BY <1>3, <1>4 DEF LeaseInv, Served, At, Owns, May, Asks
  <2> QED
    BY <2>2, <2>3
<1> QED
  BY <1>1, <1>4, LeaseStep

\* A step that ends the call of r and touches no row.
LEMMA EndStep ==
  ASSUME TypeOK, LeaseInv, NEW r \in Request, Return(r), UNCHANGED <<managed, leased, load>>,
         ~At(r, "streaming")
  PROVE  LeaseInv'
<1>1. Others(r) /\ At(r, "idle")' /\ Served(r)'
  BY ReturnOthers
<1>2. ~At(r, "streaming")'
  BY <1>1 DEF At
<1> QED
  BY <1>1, <1>2, QuietStep, LeaseStep DEF LeaseInv

\* Isolated goroutines serve no other operation than these.
LEMMA IsolatedShape ==
  ASSUME LeaseInv, Isolated, NEW r \in Request, ~At(r, "idle")
  PROVE  /\ call[r].op \in {"stream", "prepare", "remove", "retain"}
         /\ call[r].pc \in ServedPC(call[r].op)
         /\ call[r].op \in May(r)
         /\ Owns(r) => call[r].source \in Asks(r)
         /\ call[r].pc \in {"adopted", "inspect", "select", "save"} => call[r].lease = {}
BY DEF LeaseInv, Isolated, Served

\* Starting a stream reads no lease: a leased row is streamed by its owner.
LEMMA UnleasedSource ==
  ASSUME LeaseInv, Isolated, NEW r \in Request, NEW s \in Asks(r), Viewer(r), ~At(r, "streaming")
  PROVE  s \notin leased
<1> SUFFICES ASSUME s \in leased PROVE FALSE
  OBVIOUS
<1>1. PICK q \in Request : Streaming(q, s)
  BY DEF LeaseInv, Exact
<1>2. q # r /\ ~At(q, "idle") /\ call[q].pc = "streaming" /\ call[q].source = s
  BY <1>1 DEF Streaming, At
<1>3. call[q].op = "stream" /\ call[q].op \in May(q) /\ s \in Asks(q)
  BY <1>2, IsolatedShape DEF ServedPC, Owns
<1> QED
  BY <1>2, <1>3 DEF Isolated, Viewer

LEMMA AcquireLease ==
  ASSUME TypeOK, LeaseInv, NEW r \in Request, NEW s \in Asks(r), Acquire(r, s)
  PROVE  LeaseInv'
<1> DEFINE pc == IF CompletedLocal(s, complete) THEN "lease" ELSE "inspect"
           lease == leased \cap {s}
           done == complete \cap {s}
           c == [NoCall EXCEPT !.op = "stream", !.source = s, !.victim = TorrentOf[s],
                               !.lease = lease, !.done = done, !.pc = pc]
<1>1. Others(r) /\ call'[r] = c
  BY UpdateOthers DEF Acquire
<1>2. c.op = "stream" /\ c.source = s /\ c.pc = pc /\ c.lease = lease
  BY DEF NoCall
<1>3. UNCHANGED <<managed, leased, load>> /\ ~At(r, "streaming") /\ "stream" \in May(r)
  BY DEF Acquire, rowVars, At
<1>4. ASSUME Isolated PROVE Exact' /\ Served(r)'
  <2>1. Viewer(r)
    BY <1>3 DEF Viewer
  <2>2. lease = {}
    BY <1>3, <1>4, <2>1, UnleasedSource
  <2>3. Served(r)'
    BY <1>1, <1>2, <1>3, <2>2 DEF Served, ServedPC, At, Owns, May, Asks
  <2>4. ~At(r, "streaming")'
    BY <1>1, <1>2 DEF At
  <2> QED
    BY <1>1, <1>3, <1>4, <2>3, <2>4, QuietStep DEF LeaseInv
<1> QED
  BY <1>1, <1>3, <1>4, LeaseStep

\* The other calls an isolated goroutine may start.
LEMMA BeginLease ==
  ASSUME TypeOK, LeaseInv, NEW r \in Request, NEW op, NEW pc, NEW s, Begin(r, op, pc, s),
         UNCHANGED <<managed, leased, load>>,
         Isolated => /\ op \in {"prepare", "remove", "retain"} /\ pc \in ServedPC(op)
                     /\ pc \notin {"adopted", "inspect", "select", "save"}
                     /\ op = "prepare" => s \in Asks(r)
  PROVE  LeaseInv'
<1>1. PICK c : /\ c = [NoCall EXCEPT !.op = op, !.pc = pc, !.source = s, !.victim = TorrentOf[s]]
               /\ Others(r) /\ call'[r] = c
  BY UpdateOthers DEF Begin
<1>2. c.op = op /\ c.pc = pc /\ c.source = s /\ op \in May(r) /\ ~At(r, "streaming")
  BY <1>1 DEF NoCall, Begin, At
<1>3. ASSUME Isolated PROVE Exact' /\ Served(r)'
  <2>1. Served(r)'
    BY <1>1, <1>2, <1>3 DEF Served, At, Owns, May, Asks
  <2>2. pc # "streaming"
    BY <1>3 DEF ServedPC
  <2>3. ~At(r, "streaming")'
    BY <1>1, <1>2, <2>2 DEF At
  <2> QED
    BY <1>1, <1>2, <1>3, <2>1, <2>3, QuietStep DEF LeaseInv
<1> QED
  BY <1>1, <1>3, LeaseStep

LEMMA ImpossibleStep ==
  ASSUME LeaseInv, NEW r \in Request, load' = load, ~Isolated
  PROVE  LeaseInv'
BY IsolatedSame DEF LeaseInv

LEMMA RemoveLease == ASSUME TypeOK, LeaseInv, NEW r \in Request, NEW s, Remove(r, s) PROVE LeaseInv'
<1>1. UNCHANGED <<managed, leased, load>>
  BY DEF Remove, rowVars
<1>2. ASSUME Isolated PROVE Exact' /\ Served(r)'
  <2>1. ~At(r, "streaming") /\ ~At(r, "streaming")'
    BY RemoveShape DEF At
  <2>2. Exact'
    BY <1>1, <1>2, <2>1, RemoveShape, QuietStep DEF LeaseInv
  <2>3. Served(r)'
    BY <1>1, RemoveShape DEF Served, ServedPC, At, Owns, May, Asks
  <2> QED
    BY <2>2, <2>3
<1> QED
  BY <1>1, <1>2, RemoveShape, LeaseStep

LEMMA StartLease == ASSUME TypeOK, LeaseInv, NEW r \in Request, Start(r) PROVE LeaseInv'
<1>1. CASE StartRetention(r)
  BY <1>1, BeginLease DEF StartRetention, ServedPC, rowVars
<1>2. CASE ListDownloads(r)
  <2>1. "poll" \in May(r) /\ load' = load
    BY <1>2 DEF ListDownloads
  <2> QED
    BY <2>1, ImpossibleStep DEF Isolated
<1>3. ASSUME NEW s \in Asks(r), Acquire(r, s) PROVE LeaseInv'
  BY <1>3, AcquireLease
<1>4. ASSUME NEW s \in Asks(r), StartPrepare(r, s) PROVE LeaseInv'
  BY <1>4, BeginLease DEF StartPrepare, ServedPC, rowVars
<1>5. ASSUME NEW s \in Asks(r), StartSeason(r, s) PROVE LeaseInv'
  <2>1. "season" \in May(r) /\ load' = load
    BY <1>5 DEF StartSeason, Begin
  <2> QED
    BY <2>1, ImpossibleStep DEF Isolated
<1>6. ASSUME NEW s \in Asks(r), Remove(r, s) PROVE LeaseInv'
  BY <1>6, RemoveLease
<1>7. ASSUME NEW s \in Asks(r), NEW op \in {"pause", "resume", "retry"}, Toggle(r, op, s) PROVE LeaseInv'
  <2>1. op \in May(r) /\ load' = load
    BY <1>7 DEF Toggle, Begin
  <2> QED
    BY <2>1, ImpossibleStep DEF Isolated
<1> QED
  BY <1>1, <1>2, <1>3, <1>4, <1>5, <1>6, <1>7 DEF Start

LEMMA SetLeaseLease == ASSUME TypeOK, LeaseInv, NEW r \in Request, SetLease(r) PROVE LeaseInv'
<1> DEFINE s == call[r].source
<1>1. CASE s \notin managed
  BY <1>1, EndStep DEF SetLease, At
<1>2. CASE s \in managed
  <2>1. leased' = leased \cup {s} /\ managed' = managed /\ load' = load /\ At(r, "lease")
    BY <1>2 DEF SetLease
  <2>2. Others(r) /\ call'[r] = [call[r] EXCEPT !.pc = "streaming"]
    BY <1>2, GotoOthers DEF SetLease
  <2>3. call[r] \in Call
    BY DEF TypeOK
  <2>4. call'[r].pc = "streaming" /\ call'[r].op = call[r].op /\ call'[r].source = s
    BY <2>2, <2>3 DEF Call
  <2>5. ASSUME Isolated PROVE Exact' /\ Served(r)'
    <3>1. call[r].op = "stream" /\ call[r].op \in May(r) /\ s \in Asks(r)
      BY <2>1, <2>5, IsolatedShape DEF At, ServedPC, Owns
    <3>2. \A q \in Request : \A u : Streaming(q, u)' <=> Streaming(q, u) \/ (q = r /\ u = s)
      BY <2>1, <2>2, <2>4 DEF Streaming, At, Others
    <3>3. Exact'
      BY <1>2, <2>1, <2>5, <3>2 DEF Exact, LeaseInv
    <3>4. Served(r)'
      BY <2>1, <2>4, <3>1 DEF Served, ServedPC, At, Owns, May, Asks
    <3> QED
      BY <3>3, <3>4
  <2> QED
    BY <2>1, <2>2, <2>5, LeaseStep
<1> QED
  BY <1>1, <1>2

LEMMA ReleaseLease == ASSUME TypeOK, LeaseInv, NEW r \in Request, Release(r) PROVE LeaseInv'
<1> DEFINE s == call[r].source
<1>1. At(r, "streaming") /\ leased' = leased \ {s} /\ managed' = managed /\ load' = load
  BY DEF Release
<1>2. Others(r) /\ At(r, "idle")' /\ Served(r)'
  BY ReturnOthers DEF Release
<1>3. ASSUME Isolated PROVE Exact'
  <2>1. Owns(r) /\ ~At(r, "idle")
    BY <1>1, <1>3, IsolatedShape DEF At, ServedPC, Owns
  <2>2. \A q \in Request : q # r => ~Streaming(q, s)
    BY <1>3, <2>1, Exclusive
  <2>3. \A q \in Request : \A u : Streaming(q, u)' <=> q # r /\ Streaming(q, u)
    BY <1>1, <1>2 DEF Streaming, At, Others
  <2>4. \A u : Streaming(r, u) <=> u = s
    BY <1>1 DEF Streaming
  <2> QED
    BY <1>1, <1>3, <2>2, <2>3, <2>4 DEF Exact, LeaseInv
<1> QED
  BY <1>1, <1>2, <1>3, LeaseStep

\* The rows isolated goroutines save are their own and carry no lease.
LEMMA SaveLease ==
  ASSUME TypeOK, LeaseInv, Isolated, NEW r \in Request, NEW done,
         ~At(r, "idle"), ~At(r, "streaming"), ~At(r, "streaming")', Owns(r), Others(r),
         SaveDownload(call[r].source, FALSE, done)
  PROVE  Exact'
<1>1. \A q \in Request : ~Streaming(q, call[r].source)
  BY Exclusive DEF Streaming
<1> QED
  BY <1>1, SaveStep DEF LeaseInv

LEMMA InspectLease == ASSUME TypeOK, LeaseInv, NEW r \in Request, Inspect(r) PROVE LeaseInv'
<1>1. UNCHANGED <<managed, leased, load>> /\ At(r, "inspect")
  BY DEF Inspect, rowVars
<1>2. CASE Route(r) \in engine
  <2>1. PICK c : /\ c = [call[r] EXCEPT !.pc = "select", !.rows = RowsOf(Route(r)) \cup {call[r].source},
                                        !.done = FilesOf(Route(r)) \cap onDisk]
                 /\ Others(r) /\ call'[r] = c
    BY <1>2 DEF Inspect, Others, TypeOK, Call
  <2>2. call[r] \in Call
    BY DEF TypeOK
  <2>3. c.pc = "select" /\ c.op = call[r].op /\ c.source = call[r].source /\ c.lease = call[r].lease
    BY <2>1, <2>2 DEF Call
  <2>4. ASSUME Isolated PROVE Exact' /\ Served(r)'
    <3>1. Served(r)'
      BY <1>1, <2>1, <2>3, <2>4, IsolatedShape DEF At, Served, ServedPC, Owns, May, Asks
    <3>2. ~At(r, "streaming") /\ ~At(r, "streaming")'
      BY <1>1, <2>1, <2>3 DEF At
    <3> QED
      BY <1>1, <2>1, <2>4, <3>1, <3>2, QuietStep DEF LeaseInv
  <2> QED
    BY <1>1, <2>1, <2>4, LeaseStep
<1>3. CASE Route(r) \notin engine
  <2>1. CASE call[r].op = "stream" /\ Goto(r, "lease")
    <3>1. "lease" \in PC /\ "lease" \in ServedPC("stream")
      BY DEF PC, ServedPC
    <3> QED
      BY <1>1, <2>1, <3>1, MoveStep DEF At
  <2>2. CASE Return(r)
    BY <1>1, <2>2, EndStep DEF At
  <2> QED
    BY <1>3, <2>1, <2>2 DEF Inspect
<1> QED
  BY <1>2, <1>3

LEMMA SelectFilesLease == ASSUME TypeOK, LeaseInv, NEW r \in Request, SelectFiles(r) PROVE LeaseInv'
<1> DEFINE next == IF At(r, "select") THEN "save"
                   ELSE IF call[r].op = "season" THEN "rewrite" ELSE "record"
           rows == IF next = "rewrite" THEN FilesOf(Route(r)) ELSE {}
<1>1. UNCHANGED <<managed, leased, load>> /\ call[r].pc \in {"select", "apply"}
  BY DEF SelectFiles, rowVars
<1>2. CASE Route(r) \in engine
  <2>1. call' = [call EXCEPT ![r].pc = next, ![r].rows = rows]
    BY <1>2 DEF SelectFiles
  <2> HIDE DEF rows
  <2>2. PICK c : /\ c = [call[r] EXCEPT !.pc = next, !.rows = rows] /\ Others(r) /\ call'[r] = c
    BY <2>1 DEF Others, TypeOK, Call
  <2>3. call[r] \in Call
    BY DEF TypeOK
  <2>4. c.pc = next /\ c.op = call[r].op /\ c.source = call[r].source /\ c.lease = call[r].lease
    BY <2>2, <2>3 DEF Call
  <2>5. ASSUME Isolated PROVE Exact' /\ Served(r)'
    <3>1. call[r].op # "season" /\ (At(r, "apply") => call[r].op = "prepare")
      BY <1>1, <2>5, IsolatedShape DEF At, ServedPC
    <3>2. Served(r)'
      BY <1>1, <2>2, <2>4, <2>5, <3>1, IsolatedShape DEF At, Served, ServedPC, Owns, May, Asks
    <3>3. ~At(r, "streaming") /\ ~At(r, "streaming")'
      BY <1>1, <2>2, <2>4 DEF At
    <3> QED
      BY <1>1, <2>2, <2>5, <3>2, <3>3, QuietStep DEF LeaseInv
  <2> QED
    BY <1>1, <2>2, <2>5, LeaseStep
<1>3. CASE Route(r) \notin engine
  BY <1>1, <1>3, EndStep DEF SelectFiles, At
<1> QED
  BY <1>2, <1>3

LEMMA SaveManagedLease == ASSUME TypeOK, LeaseInv, NEW r \in Request, SaveManaged(r) PROVE LeaseInv'
<1> DEFINE s == call[r].source
<1>1. At(r, "save") /\ SaveDownload(s, s \in call[r].lease, s \in call[r].done) /\ load' = load
  BY DEF SaveManaged
<1>2. Others(r) /\ (Return(r) \/ call'[r] = [call[r] EXCEPT !.pc = "lease"])
  BY GotoOthers, ReturnOthers DEF SaveManaged
<1>3. call[r] \in Call
  BY DEF TypeOK
<1>4. ASSUME Isolated PROVE Exact' /\ Served(r)'
  <2>1. /\ Owns(r) /\ call[r].op \in May(r) /\ s \in Asks(r) /\ call[r].lease = {}
        /\ call[r].op = "stream" \/ Return(r)
    BY <1>1, <1>4, IsolatedShape DEF At, ServedPC, Owns, SaveManaged
  <2>2. ~At(r, "idle") /\ ~At(r, "streaming") /\ ~At(r, "streaming")'
    BY <1>1, <1>2, <1>3, ReturnOthers DEF At, Call
  <2>3. SaveDownload(s, FALSE, s \in call[r].done)
    BY <1>1, <2>1 DEF SaveDownload, With
  <2>4. Exact'
    BY <1>2, <1>4, <2>1, <2>2, <2>3, SaveLease
  <2>5. Served(r)'
    <3>1. CASE Return(r)
      BY <3>1, ReturnOthers
    <3>2. CASE call'[r] = [call[r] EXCEPT !.pc = "lease"] /\ call[r].op = "stream"
      BY <1>1, <1>3, <2>1, <3>2 DEF Call, Served, ServedPC, At, Owns, May, Asks
    <3> QED
      BY <1>2, <2>1, <3>1, <3>2
  <2> QED
    BY <2>4, <2>5
<1> QED
  BY <1>1, <1>2, <1>4, LeaseStep

LEMMA FindDownloadLease == ASSUME TypeOK, LeaseInv, NEW r \in Request, FindDownload(r) PROVE LeaseInv'
<1> DEFINE s == call[r].source
<1>1. UNCHANGED <<managed, leased, load>> /\ At(r, "prepare")
  BY DEF FindDownload, rowVars
<1>2. CASE s \in managed /\ CompletedLocal(s, complete)
  BY <1>1, <1>2, EndStep DEF FindDownload, At
<1>3. CASE ~(s \in managed /\ CompletedLocal(s, complete))
  <2> DEFINE lease == leased \cap {s}
             done == complete \cap {s}
  <2>1. \/ call' = [call EXCEPT ![r].op = "prepare", ![r].pc = "adopt"]
        \/ call' = [call EXCEPT ![r].op = "prepare", ![r].pc = "inspect",
                                ![r].lease = lease, ![r].done = done]
    BY <1>3 DEF FindDownload
  <2> HIDE DEF lease, done
  <2>2. PICK c : /\ \/ c = [call[r] EXCEPT !.op = "prepare", !.pc = "adopt"]
                    \/ c = [call[r] EXCEPT !.op = "prepare", !.pc = "inspect",
                                           !.lease = lease, !.done = done]
                 /\ Others(r) /\ call'[r] = c
    BY <2>1 DEF Others, TypeOK, Call
  <2>3. call[r] \in Call
    BY DEF TypeOK
  <2>4. c.op = "prepare" /\ c.source = s /\ (c.pc = "adopt" \/ (c.pc = "inspect" /\ c.lease = lease))
    BY <2>2, <2>3 DEF Call
  <2>5. ASSUME Isolated PROVE Exact' /\ Served(r)'
    <3>1. call[r].op = "prepare" /\ call[r].op \in May(r) /\ s \in Asks(r)
      BY <1>1, <2>5, IsolatedShape DEF At, ServedPC, Owns
    <3>2. lease = {}
      BY <1>1, <2>5, <3>1, UnleasedSource DEF lease, Viewer, At
    <3>3. Served(r)'
      BY <1>1, <2>2, <2>4, <3>1, <3>2 DEF At, Served, ServedPC, Owns, May, Asks
    <3>4. ~At(r, "streaming") /\ ~At(r, "streaming")'
      BY <1>1, <2>2, <2>4 DEF At
    <3> QED
      BY <1>1, <2>2, <2>5, <3>3, <3>4, QuietStep DEF LeaseInv
  <2> QED
    BY <1>1, <2>2, <2>5, LeaseStep
<1> QED
  BY <1>2, <1>3

LEMMA AdoptSiblingLease == ASSUME TypeOK, LeaseInv, NEW r \in Request, AdoptSibling(r) PROVE LeaseInv'
<1>1. UNCHANGED <<managed, leased, load>> /\ At(r, "adopt")
  BY DEF AdoptSibling, rowVars
<1>2. ASSUME Isolated PROVE call[r].op = "prepare"
  BY <1>1, <1>2, IsolatedShape DEF At, ServedPC
<1>3. CASE RowsOf(Route(r)) = {}
  <2>1. AdmissionPC \in PC /\ AdmissionPC \in ServedPC("prepare")
        /\ AdmissionPC \notin {"streaming", "adopted", "inspect", "select", "save"}
    BY DEF AdmissionPC, PC, ServedPC
  <2> QED
    BY <1>1, <1>2, <1>3, <2>1, MoveStep DEF AdoptSibling, At
<1>4. CASE RowsOf(Route(r)) # {} /\ Route(r) \in engine
  <2> DEFINE done == FilesOf(Route(r)) \cap onDisk
  <2>1. call' = [call EXCEPT ![r].pc = "adopted", ![r].lease = {}, ![r].done = done]
    BY <1>4 DEF AdoptSibling
  <2> HIDE DEF done
  <2>2. PICK c : /\ c = [call[r] EXCEPT !.pc = "adopted", !.lease = {}, !.done = done]
                 /\ Others(r) /\ call'[r] = c
    BY <2>1 DEF Others, TypeOK, Call
  <2>3. call[r] \in Call
    BY DEF TypeOK
  <2>4. c.op = call[r].op /\ c.source = call[r].source /\ c.pc = "adopted" /\ c.lease = {}
    BY <2>2, <2>3 DEF Call
  <2>5. ASSUME Isolated PROVE Exact' /\ Served(r)'
    <3>1. Served(r)'
      BY <1>1, <1>2, <2>2, <2>4, <2>5, IsolatedShape DEF At, Served, ServedPC, Owns, May, Asks
    <3>2. ~At(r, "streaming") /\ ~At(r, "streaming")'
      BY <1>1, <2>2, <2>4 DEF At
    <3> QED
      BY <1>1, <2>2, <2>5, <3>1, <3>2, QuietStep DEF LeaseInv
  <2> QED
    BY <1>1, <2>2, <2>5, LeaseStep
<1>5. CASE RowsOf(Route(r)) # {} /\ Route(r) \notin engine
  BY <1>1, <1>5, EndStep DEF AdoptSibling, At
<1> QED
  BY <1>3, <1>4, <1>5

LEMMA SaveAdoptedLease == ASSUME TypeOK, LeaseInv, NEW r \in Request, SaveAdopted(r) PROVE LeaseInv'
<1> DEFINE s == call[r].source
<1>1. At(r, "adopted") /\ SaveDownload(s, FALSE, s \in call[r].done) /\ load' = load
  BY DEF SaveAdopted
<1>2. Others(r) /\ (Return(r) \/ call'[r] = [call[r] EXCEPT !.pc = "inspect"])
  BY GotoOthers, ReturnOthers DEF SaveAdopted
<1>3. call[r] \in Call
  BY DEF TypeOK
<1>4. ASSUME Isolated PROVE Exact' /\ Served(r)'
  <2>1. Owns(r) /\ call[r].op = "prepare" /\ call[r].op \in May(r) /\ s \in Asks(r)
    BY <1>1, <1>4, IsolatedShape DEF At, ServedPC, Owns
  <2>2. ~At(r, "idle") /\ ~At(r, "streaming") /\ ~At(r, "streaming")'
    BY <1>1, <1>2, <1>3, ReturnOthers DEF At, Call
  <2>3. Exact'
    BY <1>1, <1>2, <1>4, <2>1, <2>2, SaveLease
  <2>4. Served(r)'
    <3>1. CASE Return(r)
      BY <3>1, ReturnOthers
    <3>2. CASE call'[r] = [call[r] EXCEPT !.pc = "inspect"] /\ call[r].lease = {}
      BY <1>1, <1>3, <2>1, <3>2 DEF Call, Served, ServedPC, At, Owns, May, Asks
    <3>3. call[r].lease = {}
      BY <1>1, <1>4, IsolatedShape DEF At
    <3> QED
      BY <1>2, <3>1, <3>2, <3>3
  <2> QED
    BY <2>3, <2>4
<1> QED
  BY <1>1, <1>2, <1>4, LeaseStep

LEMMA ListFilesLease == ASSUME TypeOK, LeaseInv, NEW r \in Request, ListFiles(r) PROVE LeaseInv'
<1>1. UNCHANGED <<managed, leased, load>> /\ At(r, "files")
  BY DEF ListFiles, rowVars
<1>2. CASE Route(r) \in engine
  <2> DEFINE extra == IF call[r].op = "season" THEN FilesOf(Route(r)) ELSE {call[r].source}
             rows == RowsOf(Route(r)) \cup extra
             done == FilesOf(Route(r)) \cap onDisk
  <2>1. call' = [call EXCEPT ![r].pc = "apply", ![r].rows = rows, ![r].done = done]
    BY <1>2 DEF ListFiles
  <2> HIDE DEF rows, done
  <2>2. PICK c : /\ c = [call[r] EXCEPT !.pc = "apply", !.rows = rows, !.done = done]
                 /\ Others(r) /\ call'[r] = c
    BY <2>1 DEF Others, TypeOK, Call
  <2>3. call[r] \in Call
    BY DEF TypeOK
  <2>4. c.op = call[r].op /\ c.source = call[r].source /\ c.pc = "apply"
    BY <2>2, <2>3 DEF Call
  <2>5. ASSUME Isolated PROVE Exact' /\ Served(r)'
    <3>1. Served(r)'
      BY <1>1, <2>2, <2>4, <2>5, IsolatedShape DEF At, Served, ServedPC, Owns, May, Asks
    <3>2. ~At(r, "streaming") /\ ~At(r, "streaming")'
      BY <1>1, <2>2, <2>4 DEF At
    <3> QED
      BY <1>1, <2>2, <2>5, <3>1, <3>2, QuietStep DEF LeaseInv
  <2> QED
    BY <1>1, <2>2, <2>5, LeaseStep
<1>3. CASE Route(r) \notin engine
  BY <1>1, <1>3, EndStep DEF ListFiles, At
<1> QED
  BY <1>2, <1>3

LEMMA RecordDownloadLease == ASSUME TypeOK, LeaseInv, NEW r \in Request, RecordDownload(r) PROVE LeaseInv'
<1>1. Others(r) /\ At(r, "idle")' /\ Served(r)' /\ load' = load /\ At(r, "record")
  BY ReturnOthers DEF RecordDownload
<1>2. ~At(r, "idle") /\ ~At(r, "streaming") /\ ~At(r, "streaming")'
  BY <1>1 DEF At
<1>3. ASSUME Isolated PROVE Exact'
  <2>1. Owns(r)
    BY <1>1, <1>3, IsolatedShape DEF At, ServedPC, Owns
  <2> QED
    BY <1>1, <1>2, <1>3, <2>1, SaveLease DEF RecordDownload
<1> QED
  BY <1>1, <1>3, LeaseStep

LEMMA SurveyLease ==
  ASSUME TypeOK, LeaseInv, NEW r \in Request, SurveyRows(r) \/ SampleRoute(r) PROVE LeaseInv'
<1>1. UNCHANGED <<managed, leased, load>> /\ (At(r, "survey") \/ At(r, "sample"))
  BY DEF SurveyRows, SampleRoute, rowVars
<1>2. Others(r) /\ SameCall(r) /\ call'[r].pc = "sample"
  BY SurveyRowsShape, SampleRouteShape
<1>3. ASSUME Isolated PROVE "sample" \in ServedPC(call[r].op)
  BY <1>1, <1>3, IsolatedShape DEF At, ServedPC
<1> QED
  BY <1>1, <1>2, <1>3, KeptStep DEF At

LEMMA ChooseLease == ASSUME TypeOK, LeaseInv, NEW r \in Request, Choose(r) PROVE LeaseInv'
<1>1. UNCHANGED <<managed, leased, load>> /\ At(r, "sample")
  BY DEF Choose, rowVars
<1>2. ASSUME Isolated PROVE call[r].op \in {"prepare", "retain"}
  BY <1>1, <1>2, IsolatedShape DEF At, ServedPC
<1>3. CASE Return(r)
  BY <1>1, <1>3, EndStep DEF At
<1>4. CASE Goto(r, "add") /\ call[r].op # "retain"
  <2>1. "add" \in PC /\ "add" \in ServedPC("prepare")
    BY DEF PC, ServedPC
  <2> QED
    BY <1>1, <1>2, <1>4, <2>1, MoveStep DEF At
<1>5. CASE Others(r) /\ SameCall(r) /\ call'[r].pc = "evict"
  <2>1. "evict" \in ServedPC("prepare") \cap ServedPC("retain")
    BY DEF ServedPC
  <2> QED
    BY <1>1, <1>2, <1>5, <2>1, KeptStep DEF At
<1> QED
  BY <1>3, <1>4, <1>5, ChooseShape

LEMMA ListForgetLease == ASSUME TypeOK, LeaseInv, NEW r \in Request, ListForget(r) PROVE LeaseInv'
<1> DEFINE rows == RowsOf(call[r].victim)
<1>1. UNCHANGED <<managed, leased, load>> /\ At(r, "forget")
  BY DEF ListForget, rowVars
<1>2. call' = [call EXCEPT ![r].pc = "delete", ![r].rows = rows]
  BY DEF ListForget
<1> HIDE DEF rows
<1>3. PICK c : c = [call[r] EXCEPT !.pc = "delete", !.rows = rows] /\ Others(r) /\ call'[r] = c
  BY <1>2 DEF Others, TypeOK, Call
<1>4. call[r] \in Call
  BY DEF TypeOK
<1>5. c.op = call[r].op /\ c.source = call[r].source /\ c.pc = "delete"
  BY <1>3, <1>4 DEF Call
<1>6. ASSUME Isolated PROVE Exact' /\ Served(r)'
  <2>1. Served(r)'
    BY <1>1, <1>3, <1>5, <1>6, IsolatedShape DEF At, Served, ServedPC, Owns, May, Asks
  <2>2. ~At(r, "streaming") /\ ~At(r, "streaming")'
    BY <1>1, <1>3, <1>5 DEF At
  <2> QED
    BY <1>1, <1>3, <1>6, <2>1, <2>2, QuietStep DEF LeaseInv
<1> QED
  BY <1>1, <1>3, <1>6, LeaseStep

\* A row leaves with its lease.
LEMMA DeleteRowLease == ASSUME TypeOK, LeaseInv, NEW r \in Request, DeleteRow(r) PROVE LeaseInv'
<1> PICK s \in call[r].rows :
      /\ managed' = managed \ {s} /\ leased' = leased \ {s}
      /\ IF s \in managed THEN call' = [call EXCEPT ![r].rows = @ \ {s}] ELSE Return(r)
  BY DEF DeleteRow
<1>1. At(r, "delete") /\ load' = load
  BY DEF DeleteRow
<1>2. call[r] \in Call
  BY DEF TypeOK
<1>3. Others(r) /\ (Return(r) \/ call'[r] = [call[r] EXCEPT !.rows = @ \ {s}])
  BY ReturnOthers DEF Others, TypeOK, Call
<1>4. ~At(r, "streaming") /\ ~At(r, "streaming")'
  BY <1>1, <1>2, <1>3, ReturnOthers DEF At, Call
<1>5. ASSUME Isolated PROVE Exact' /\ Served(r)'
  <2>1. \A q \in Request : \A u : Streaming(q, u)' <=> Streaming(q, u)
    BY <1>3, <1>4 DEF Streaming, At, Others
  <2>2. Exact'
    BY <1>5, <2>1 DEF Exact, LeaseInv
  <2>3. CASE Return(r)
    BY <2>2, <2>3, ReturnOthers
  <2>4. CASE call'[r] = [call[r] EXCEPT !.rows = @ \ {s}]
    BY <1>1, <1>2, <1>5, <2>2, <2>4, IsolatedShape DEF Call, At, Served, ServedPC, Owns, May, Asks
  <2> QED
    BY <1>3, <2>3, <2>4
<1> QED
  BY <1>1, <1>3, <1>5, LeaseStep

LEMMA ForgottenLease == ASSUME TypeOK, LeaseInv, NEW r \in Request, Forgotten(r) PROVE LeaseInv'
<1>1. UNCHANGED <<managed, leased, load>> /\ At(r, "delete")
  BY DEF Forgotten, rowVars
<1>2. ASSUME Isolated PROVE call[r].op \in {"prepare", "remove", "retain"}
  BY <1>1, <1>2, IsolatedShape DEF At, ServedPC
<1>3. CASE call[r].op = "remove"
  BY <1>1, <1>3, EndStep DEF Forgotten, At
<1>4. CASE call[r].op = "retry"
  <2>1. Goto(r, "prepare") /\ "prepare" \in PC
    BY <1>4 DEF Forgotten, PC
  <2> QED
    BY <1>1, <1>2, <1>4, <2>1, MoveStep DEF At
<1>5. CASE call[r].op \notin {"remove", "retry"}
  <2>1. Goto(r, "survey") /\ "survey" \in PC /\ "survey" \in ServedPC("prepare") \cap ServedPC("retain")
    BY <1>5 DEF Forgotten, PC, ServedPC
  <2> QED
    BY <1>1, <1>2, <1>5, <2>1, MoveStep DEF At
<1> QED
  BY <1>3, <1>4, <1>5

LEMMA AddTorrentLease == ASSUME TypeOK, LeaseInv, NEW r \in Request, AddTorrent(r) PROVE LeaseInv'
<1>1. UNCHANGED <<managed, leased, load>> /\ At(r, "add") /\ Goto(r, "files")
  BY DEF AddTorrent, rowVars
<1>2. "files" \in PC /\ "files" \in ServedPC("prepare")
  BY DEF PC, ServedPC
<1>3. ASSUME Isolated PROVE call[r].op = "prepare"
  BY <1>1, <1>3, IsolatedShape DEF At, ServedPC
<1> QED
  BY <1>1, <1>2, <1>3, MoveStep DEF At

LEMMA EngineRemoveLease == ASSUME TypeOK, LeaseInv, NEW r \in Request, EngineRemove(r) PROVE LeaseInv'
<1>1. UNCHANGED <<managed, leased, load>> /\ At(r, "evict") /\ Goto(r, "forget")
  BY DEF EngineRemove, rowVars
<1>2. "forget" \in PC
  BY DEF PC
<1>3. ASSUME Isolated PROVE "forget" \in ServedPC(call[r].op)
  BY <1>1, <1>3, IsolatedShape DEF At, ServedPC
<1> QED
  BY <1>1, <1>2, <1>3, MoveStep DEF At

LEMMA StepLease == ASSUME TypeOK, LeaseInv, NEW r \in Request, Step(r) PROVE LeaseInv'
<1>1. ASSUME FindSeason(r) \/ RefreshRow(r) \/ ListRoute(r) \/ RewriteRow(r) \/ Written(r)
      PROVE  LeaseInv'
  <2>1. load' = load /\ call[r].pc \in {"season", "refresh", "list", "rewrite"}
    BY <1>1 DEF FindSeason, RefreshRow, ListRoute, RewriteRow, Written, At
  <2>2. ~Isolated
    BY <2>1, IsolatedShape DEF At, ServedPC
  <2> QED
    BY <2>1, <2>2, ImpossibleStep
<1> QED
  BY <1>1, SetLeaseLease, InspectLease, SelectFilesLease, SaveManagedLease, FindDownloadLease,
     AdoptSiblingLease, SaveAdoptedLease, AddTorrentLease, ListFilesLease, RecordDownloadLease,
     SurveyLease, ChooseLease, EngineRemoveLease, ListForgetLease, DeleteRowLease, ForgottenLease DEF Step

LEMMA NextLease == ASSUME TypeOK, LeaseInv, Next PROVE LeaseInv'
<1>1. ASSUME NEW r \in Request, Fail(r) PROVE LeaseInv'
  BY <1>1, EndStep DEF Fail, rowVars, At
<1>2. ASSUME UNCHANGED <<managed, leased, call, load>> PROVE LeaseInv'
  BY <1>2, IsolatedSame DEF LeaseInv, Exact, Served, Streaming, At, Owns, May, Asks
<1>3. ASSUME NEW s \in Source, FinishFile(s) PROVE LeaseInv'
  BY <1>2, <1>3 DEF FinishFile, rowVars
<1>4. ASSUME NEW t \in Torrent, Vanish(t) PROVE LeaseInv'
  BY <1>2, <1>4 DEF Vanish, rowVars
<1>5. CASE Crash
  <2>1. load' = load /\ ~Isolated
    BY <1>5 DEF Crash, Isolated
  <2> QED
    BY <2>1, IsolatedSame DEF LeaseInv
<1> QED
  BY <1>1, <1>3, <1>4, <1>5, StartLease, StepLease, ReleaseLease DEF Next

LEMMA InitLease == Init => LeaseInv
BY DEF Init, LeaseInv, Exact, Served, Streaming, At, NoCall

\* The leased column is exactly the set of rows somebody streams, for any
\* number of isolated streams next to any number of removals.
THEOREM LeasesExact == Spec => []LeaseExact
<1>1. Init => TypeOK /\ LeaseInv
  BY InitType, InitLease
<1>2. TypeOK /\ LeaseInv /\ [Next]_vars => LeaseInv'
  <2>1. ASSUME LeaseInv, UNCHANGED vars PROVE LeaseInv'
    BY <2>1, IsolatedSame DEF vars, LeaseInv, Exact, Served, Streaming, At, Owns, May, Asks
  <2> QED
    BY <2>1, NextLease
<1>3. LeaseInv => LeaseExact
  BY DEF LeaseInv, LeaseExact, Exact
<1> QED
  BY <1>1, <1>2, <1>3, TypeCorrect, PTL DEF Spec


-----------------------------------------------------------------------------
(* Removals leave the torrents alone that were streamed when they listed     *)
(* the rows.  Between the list and the removal the promise is carried by the  *)
(* plan of the call: what was streamed then is among the spared routes.       *)

TakingPC == {"sample", "evict", "forget", "delete"}

Spares(r) ==
    /\ At(r, "sample") /\ ProtectLeased => \A s \in call[r].seen : TorrentOf[s] \in call[r].spared
    /\ /\ call[r].pc \in {"evict", "forget", "delete"}
       /\ call[r].op # "remove" => ProtectLeased
       => \A s \in call[r].seen : TorrentOf[s] # call[r].victim

SpareInv == Isolated => \A r \in Request : Spares(r)

LEMMA OutsideSpares ==
  ASSUME NEW r \in Request, call'[r].pc \notin TakingPC PROVE Spares(r)'
BY DEF Spares, TakingPC, At

\* What is streamed shows on its route.
LEMMA WatchedLeased ==
  ASSUME TypeOK, LeaseInv, Isolated, NEW s \in Watched
  PROVE  TorrentOf[s] \in Torrent /\ RouteLeased(TorrentOf[s])
<1>1. s \in managed /\ s \in Source /\ s \in leased
  BY DEF Watched, LeaseInv, Exact, Streaming, TypeOK
<1> QED
  BY <1>1, ConstantsAssumption DEF RouteLeased, RowsOf, FilesOf

LEMMA SpareStep ==
  ASSUME SpareInv, NEW r \in Request, load' = load, Others(r), Isolated => Spares(r)'
  PROVE  SpareInv'
<1>1. Isolated' <=> Isolated
  BY IsolatedSame
<1>2. \A q \in Request : q # r => (Spares(q)' <=> Spares(q))
  BY DEF Others, Spares, At
<1> QED
  BY <1>1, <1>2 DEF SpareInv

LEMMA GotoSpares ==
  ASSUME TypeOK, SpareInv, NEW r \in Request, NEW pc, Goto(r, pc), load' = load,
         \/ pc \notin TakingPC
         \/ pc = "forget" /\ At(r, "evict")
  PROVE  SpareInv'
<1>1. PICK c : c = [call[r] EXCEPT !.pc = pc] /\ Others(r) /\ call'[r] = c
  BY GotoOthers
<1>2. call[r] \in Call
  BY DEF TypeOK
<1>3. /\ c.pc = pc /\ c.op = call[r].op /\ c.victim = call[r].victim /\ c.seen = call[r].seen
  BY <1>1, <1>2 DEF Call
<1>4. ASSUME Isolated PROVE Spares(r)'
  <2>1. CASE pc \notin TakingPC
    BY <1>1, <1>3, <2>1, OutsideSpares
  <2>2. CASE pc = "forget" /\ At(r, "evict")
    BY <1>1, <1>3, <1>4, <2>2 DEF SpareInv, Spares, At
  <2> QED
    BY <2>1, <2>2
<1> QED
  BY <1>1, <1>4, SpareStep

LEMMA ReturnSpares ==
  ASSUME TypeOK, SpareInv, NEW r \in Request, Return(r), load' = load PROVE SpareInv'
<1>1. Others(r) /\ call'[r].pc = "idle"
  BY ReturnOthers DEF At
<1>2. Spares(r)'
  BY <1>1, OutsideSpares DEF TakingPC
<1> QED
  BY <1>1, <1>2, SpareStep

LEMMA BeginPC ==
  ASSUME TypeOK, NEW r \in Request, NEW op, NEW pc, NEW s, Begin(r, op, pc, s)
  PROVE  Others(r) /\ call'[r].pc = pc /\ call'[r].op = op
<1>1. PICK c : /\ c = [NoCall EXCEPT !.op = op, !.pc = pc, !.source = s, !.victim = TorrentOf[s]]
               /\ Others(r) /\ call'[r] = c
  BY UpdateOthers DEF Begin
<1> QED
  BY <1>1 DEF NoCall

LEMMA StartSpares ==
  ASSUME TypeOK, LeaseInv, SpareInv, NEW r \in Request, Start(r) PROVE SpareInv'
<1>1. ASSUME NEW op, NEW pc, NEW s, Begin(r, op, pc, s), load' = load,
             pc \notin TakingPC \/ op \in {"pause", "resume", "retry"}
      PROVE  SpareInv'
  <2>1. CASE pc \notin TakingPC
    BY <1>1, <2>1, BeginPC, OutsideSpares, SpareStep
  <2>2. CASE op \in {"pause", "resume", "retry"}
    <3>1. ~Isolated
      BY <1>1, <2>2 DEF Begin, Isolated
    <3> QED
      BY <1>1, <3>1, IsolatedSame DEF SpareInv
  <2> QED
    BY <1>1, <2>1, <2>2
<1>2. CASE ListDownloads(r)
  <2> DEFINE rows == managed  lease == leased  done == complete
  <2>1. PICK c : /\ c = [NoCall EXCEPT !.op = "poll", !.pc = "refresh",
                                       !.rows = rows, !.lease = lease, !.done = done]
                 /\ Others(r) /\ call'[r] = c
    BY <1>2, UpdateOthers DEF ListDownloads
  <2>2. c.pc = "refresh" /\ load' = load
    BY <1>2, <2>1 DEF NoCall, ListDownloads
  <2> QED
    BY <2>1, <2>2, OutsideSpares, SpareStep DEF TakingPC
<1>3. ASSUME NEW s, Acquire(r, s) PROVE SpareInv'
  <2> DEFINE pc == IF CompletedLocal(s, complete) THEN "lease" ELSE "inspect"
             lease == leased \cap {s}
             done == complete \cap {s}
  <2>1. PICK c : /\ c = [NoCall EXCEPT !.op = "stream", !.source = s, !.victim = TorrentOf[s],
                                       !.lease = lease, !.done = done, !.pc = pc]
                 /\ Others(r) /\ call'[r] = c
    BY <1>3, UpdateOthers DEF Acquire
  <2>2. c.pc = pc /\ load' = load
    BY <1>3, <2>1 DEF NoCall, Acquire
  <2>3. call'[r].pc \notin TakingPC
    BY <2>1, <2>2 DEF TakingPC
  <2> QED
    BY <2>1, <2>2, <2>3, OutsideSpares, SpareStep
<1>4. ASSUME NEW s \in Asks(r), Remove(r, s) PROVE SpareInv'
  <2>1. ASSUME Isolated, NEW u \in Watched PROVE TorrentOf[u] # TorrentOf[s]
    BY <1>4, <2>1, WatchedLeased, RemoveShape
  <2>2. ASSUME Isolated PROVE Spares(r)'
    BY <1>4, <2>1, <2>2, RemoveShape DEF Spares, At
  <2>3. load' = load
    BY <1>4 DEF Remove
  <2> QED
    BY <1>4, <2>2, <2>3, RemoveShape, SpareStep
<1> QED
  BY <1>1, <1>2, <1>3, <1>4 DEF Start, StartRetention, StartPrepare, StartSeason, Toggle, TakingPC

\* The steps that neither survey nor remove.
LEMMA OtherStepSpares ==
  ASSUME TypeOK, SpareInv, NEW r \in Request, Step(r),
         ~SurveyRows(r), ~SampleRoute(r), ~Choose(r), ~ListForget(r), ~DeleteRow(r)
  PROVE  SpareInv'
<1>1. call[r] \in Call
  BY DEF TypeOK
<1>2. load' = load
  BY DEF Step, SetLease, Inspect, SelectFiles, SaveManaged, FindDownload, AdoptSibling, SaveAdopted,
         FindSeason, AddTorrent, ListFiles, RecordDownload, EngineRemove, Forgotten, RefreshRow,
         ListRoute, RewriteRow, Written
<1>3. CASE SetLease(r) \/ SaveManaged(r) \/ SaveAdopted(r) \/ FindSeason(r) \/ AddTorrent(r)
           \/ RecordDownload(r) \/ EngineRemove(r) \/ Forgotten(r) \/ Written(r)
  <2>1. \/ Return(r) \/ Goto(r, "streaming") \/ Goto(r, "lease") \/ Goto(r, "inspect") \/ Goto(r, "files")
        \/ Goto(r, "add") \/ Goto(r, "survey") \/ Goto(r, "prepare")
        \/ Goto(r, "forget") /\ At(r, "evict")
    BY <1>3 DEF SetLease, SaveManaged, SaveAdopted, FindSeason, AddTorrent, RecordDownload,
                EngineRemove, Forgotten, Written, AdmissionPC
  <2> QED
    BY <1>2, <2>1, GotoSpares, ReturnSpares DEF TakingPC
<1>4. CASE RefreshRow(r) \/ RewriteRow(r)
  <2>1. PICK s : call' = [call EXCEPT ![r].rows = @ \ {s}]
    BY <1>4 DEF RefreshRow, RewriteRow
  <2>2. Others(r) /\ call'[r].pc = call[r].pc
    BY <1>1, <2>1 DEF Others, TypeOK, Call
  <2>3. call[r].pc \notin TakingPC
    BY <1>4 DEF RefreshRow, RewriteRow, At, TakingPC
  <2> QED
    BY <1>2, <2>2, <2>3, OutsideSpares, SpareStep
<1>5. CASE Inspect(r) \/ SelectFiles(r) \/ FindDownload(r) \/ AdoptSibling(r) \/ ListFiles(r) \/ ListRoute(r)
  <2>1. \/ Return(r)
        \/ \E pc : Goto(r, pc) /\ pc \notin TakingPC
        \/ Others(r) /\ call'[r].pc \notin TakingPC
    <3>1. CASE Inspect(r)
      BY <1>1, <3>1 DEF Inspect, Others, TypeOK, Call, TakingPC
    <3>2. CASE SelectFiles(r)
      BY <1>1, <3>2 DEF SelectFiles, Others, TypeOK, Call, TakingPC
    <3>3. CASE FindDownload(r)
      BY <1>1, <3>3 DEF FindDownload, Others, TypeOK, Call, TakingPC
    <3>4. CASE AdoptSibling(r)
      BY <1>1, <3>4 DEF AdoptSibling, AdmissionPC, Others, TypeOK, Call, TakingPC
    <3>5. CASE ListFiles(r)
      BY <1>1, <3>5 DEF ListFiles, Others, TypeOK, Call, TakingPC
    <3>6. CASE ListRoute(r)
      BY <1>1, <3>6 DEF ListRoute, Others, TypeOK, Call, TakingPC
    <3> QED
      BY <1>5, <3>1, <3>2, <3>3, <3>4, <3>5, <3>6
  <2> QED
    BY <1>2, <2>1, GotoSpares, ReturnSpares, OutsideSpares, SpareStep
<1> QED
  BY <1>3, <1>4, <1>5 DEF Step

LEMMA SurveySpares ==
  ASSUME TypeOK, LeaseInv, SpareInv, NEW r \in Request, SurveyRows(r) \/ SampleRoute(r) \/ Choose(r)
  PROVE  SpareInv'
<1>1. load' = load
  BY DEF SurveyRows, SampleRoute, Choose
<1>2. CASE SurveyRows(r)
  <2>1. ASSUME Isolated, ProtectLeased, NEW s \in Watched PROVE TorrentOf[s] \in call'[r].spared
    BY <1>2, <2>1, WatchedLeased, SurveyRowsShape DEF RowsProtect
  <2>2. ASSUME Isolated PROVE Spares(r)'
    BY <1>2, <2>1, <2>2, SurveyRowsShape DEF Spares, At
  <2> QED
    BY <1>1, <1>2, <2>2, SurveyRowsShape, SpareStep
<1>3. CASE SampleRoute(r)
  <2>1. /\ Others(r) /\ At(r, "sample") /\ call'[r].pc = "sample" /\ call'[r].seen = call[r].seen
        /\ call[r].spared \subseteq call'[r].spared
    BY <1>3, SampleRouteShape
  <2>2. ASSUME Isolated PROVE Spares(r)'
    BY <2>1, <2>2 DEF SpareInv, Spares, At
  <2> QED
    BY <1>1, <2>1, <2>2, SpareStep
<1>4. CASE Choose(r)
  <2>1. CASE Goto(r, "add") \/ Return(r)
    BY <1>1, <2>1, GotoSpares, ReturnSpares DEF TakingPC
  <2>2. CASE /\ Others(r) /\ SameCall(r) /\ call'[r].pc = "evict" /\ call'[r].seen = call[r].seen
             /\ call'[r].victim \in call[r].plan \ call[r].spared
    <3>1. ASSUME Isolated PROVE At(r, "sample") /\ call[r].op # "remove"
      BY <1>4, <3>1, ChooseShape, IsolatedShape DEF At, ServedPC
    <3>2. ASSUME Isolated PROVE Spares(r)'
      BY <2>2, <3>1, <3>2 DEF SpareInv, Spares, At, SameCall
    <3> QED
      BY <1>1, <2>2, <3>2, SpareStep
  <2> QED
    BY <1>4, <2>1, <2>2, ChooseShape
<1> QED
  BY <1>2, <1>3, <1>4

LEMMA DeletionSpares ==
  ASSUME TypeOK, SpareInv, NEW r \in Request, ListForget(r) \/ DeleteRow(r) PROVE SpareInv'
<1>1. load' = load /\ call[r].pc \in {"forget", "delete"}
  BY DEF ListForget, DeleteRow, At
<1>2. call[r] \in Call
  BY DEF TypeOK
<1>3. \/ Return(r)
      \/ \E rows : call' = [call EXCEPT ![r].pc = "delete", ![r].rows = rows]
      \/ \E s : call' = [call EXCEPT ![r].rows = @ \ {s}]
  BY DEF ListForget, DeleteRow
<1>4. CASE Return(r)
  BY <1>1, <1>4, ReturnSpares
<1>5. ASSUME NEW c, call' = [call EXCEPT ![r] = c], c.op = call[r].op, c.victim = call[r].victim,
             c.seen = call[r].seen, c.pc = "delete"
      PROVE  SpareInv'
  <2>1. Others(r) /\ call'[r] = c
    BY <1>5, UpdateOthers
  <2>2. ASSUME Isolated PROVE Spares(r)'
    BY <1>1, <1>5, <2>1, <2>2 DEF SpareInv, Spares, At
  <2> QED
    BY <1>1, <2>1, <2>2, SpareStep
<1>6. ASSUME NEW rows, call' = [call EXCEPT ![r].pc = "delete", ![r].rows = rows] PROVE SpareInv'
  <2>1. PICK c : c = [call[r] EXCEPT !.pc = "delete", !.rows = rows]
    OBVIOUS
  <2>2. call' = [call EXCEPT ![r] = c]
    BY <1>6, <2>1
  <2>3. c.op = call[r].op /\ c.victim = call[r].victim /\ c.seen = call[r].seen /\ c.pc = "delete"
    BY <1>2, <2>1 DEF Call
  <2> QED
    BY <1>5, <2>2, <2>3
<1>7. ASSUME NEW s, call' = [call EXCEPT ![r].rows = @ \ {s}], At(r, "delete") PROVE SpareInv'
  <2>1. PICK c : c = [call[r] EXCEPT !.rows = @ \ {s}]
    OBVIOUS
  <2>2. call' = [call EXCEPT ![r] = c]
    BY <1>7, <2>1
  <2>3. c.op = call[r].op /\ c.victim = call[r].victim /\ c.seen = call[r].seen /\ c.pc = "delete"
    BY <1>2, <1>7, <2>1 DEF Call, At
  <2> QED
    BY <1>5, <2>2, <2>3
<1> QED
  BY <1>4, <1>6, <1>7 DEF ListForget, DeleteRow

LEMMA NextSpares ==
  ASSUME TypeOK, LeaseInv, SpareInv, [Next]_vars PROVE SpareInv'
<1>1. ASSUME NEW r \in Request, Release(r) \/ Fail(r) PROVE SpareInv'
  BY <1>1, ReturnSpares DEF Release, Fail
<1>2. ASSUME UNCHANGED <<call, load>> PROVE SpareInv'
  BY <1>2, IsolatedSame DEF SpareInv, Spares, At
<1>3. CASE Crash
  <2>1. load' = load /\ ~Isolated
    BY <1>3 DEF Crash, Isolated
  <2> QED
    BY <2>1, IsolatedSame DEF SpareInv
<1>4. ASSUME NEW r \in Request, Step(r) PROVE SpareInv'
  BY <1>4, OtherStepSpares, SurveySpares, DeletionSpares
<1>5. CASE UNCHANGED vars
  BY <1>2, <1>5 DEF vars
<1> QED
  BY <1>1, <1>2, <1>3, <1>4, <1>5, StartSpares DEF Next, FinishFile, Vanish

\* Neither a removal nor an eviction takes down a torrent that an isolated
\* viewer streamed when its call listed the rows, whichever episode of the
\* season pack the viewer reads.
THEOREM VictimsWereUnstreamed == Spec => []VictimWasUnstreamed
<1>1. Init => TypeOK /\ LeaseInv /\ SpareInv
  <2>1. Init => SpareInv
    BY DEF Init, SpareInv, Spares, At, NoCall
  <2> QED
    BY <2>1, InitType, InitLease
<1>2. TypeOK /\ LeaseInv /\ [Next]_vars => LeaseInv'
  <2>1. ASSUME LeaseInv, UNCHANGED vars PROVE LeaseInv'
    BY <2>1, IsolatedSame DEF vars, LeaseInv, Exact, Served, Streaming, At, Owns, May, Asks
  <2> QED
    BY <2>1, NextLease
<1>3. TypeOK /\ LeaseInv /\ SpareInv /\ [Next]_vars => SpareInv'
  BY NextSpares
<1>4. SpareInv => VictimWasUnstreamed
  BY DEF SpareInv, Spares, VictimWasUnstreamed
<1> QED
  BY <1>1, <1>2, <1>3, <1>4, TypeCorrect, PTL DEF Spec

-----------------------------------------------------------------------------
(* What each step makes of the record of its own call.                     *)

\* The call goes on as it is, but for its place and its local copies.
Continues(r, pc) ==
    /\ Others(r) /\ call'[r].pc = pc
    /\ call'[r].op = call[r].op /\ call'[r].source = call[r].source
    /\ call'[r].victim = call[r].victim

Ends(r) == Others(r) /\ call'[r] = NoCall

Begins(r, op, pc, s) ==
    /\ Others(r) /\ call'[r].pc = pc /\ call'[r].op = op /\ call'[r].source = s
    /\ call'[r].victim = TorrentOf[s]

Copies(r, rows, done) == call'[r].rows = rows /\ call'[r].done = done

LEMMA Fields ==
  ASSUME TypeOK, NEW r \in Request
  PROVE  /\ call[r] = [op |-> call[r].op, pc |-> call[r].pc, source |-> call[r].source,
                       victim |-> call[r].victim, rows |-> call[r].rows,
                       lease |-> call[r].lease, done |-> call[r].done, plan |-> call[r].plan,
                       spared |-> call[r].spared, seen |-> call[r].seen]
         /\ call[r].op \in Operation \cup {"none"} /\ call[r].pc \in PC
         /\ call[r].source \in Source /\ call[r].victim \in Torrent
         /\ call[r].rows \subseteq Source /\ call[r].done \subseteq Source
BY DEF TypeOK, Call

LEMMA NoCallFields ==
  NoCall.op = "none" /\ NoCall.pc = "idle" /\ NoCall.rows = {} /\ NoCall.done = {} /\ NoCall.lease = {}
BY DEF NoCall

LEMMA GotoEffect ==
  ASSUME TypeOK, NEW r \in Request, NEW pc, Goto(r, pc)
  PROVE  Continues(r, pc) /\ Copies(r, call[r].rows, call[r].done)
<1>1. PICK c : c = [call[r] EXCEPT !.pc = pc] /\ Others(r) /\ call'[r] = c
  BY GotoOthers
<1> QED
  BY <1>1, Fields DEF Continues, Copies

LEMMA ReturnEffect ==
  ASSUME TypeOK, NEW r \in Request, Return(r) PROVE Ends(r)
BY DEF Ends, Others, Return, TypeOK

LEMMA BeginEffect ==
  ASSUME TypeOK, NEW r \in Request, NEW op, NEW pc, NEW s, Begin(r, op, pc, s)
  PROVE  Begins(r, op, pc, s) /\ Copies(r, {}, {}) /\ op \in May(r) /\ At(r, "idle")
<1>1. PICK c : /\ c = [NoCall EXCEPT !.op = op, !.pc = pc, !.source = s, !.victim = TorrentOf[s]]
               /\ Others(r) /\ call'[r] = c
  BY UpdateOthers DEF Begin
<1> QED
  <2>1. Begins(r, op, pc, s) /\ Copies(r, {}, {})
    BY <1>1 DEF NoCall, Begins, Copies
  <2> QED
    BY <2>1 DEF Begin, At

LEMMA RemoveEffect ==
  ASSUME TypeOK, NEW r \in Request, NEW s, Remove(r, s)
  PROVE  Begins(r, "remove", "evict", s) /\ Copies(r, {}, {}) /\ "remove" \in May(r) /\ At(r, "idle")
BY RemoveShape DEF Begins, Copies

LEMMA AcquireEffect ==
  ASSUME TypeOK, NEW r \in Request, NEW s, Acquire(r, s)
  PROVE  \E pc \in {"lease", "inspect"} :
           /\ Begins(r, "stream", pc, s) /\ Copies(r, {}, complete \cap {s})
           /\ "stream" \in May(r) /\ At(r, "idle")
<1> DEFINE pc == IF CompletedLocal(s, complete) THEN "lease" ELSE "inspect"
           lease == leased \cap {s}
           done == complete \cap {s}
<1>1. PICK c : /\ c = [NoCall EXCEPT !.op = "stream", !.source = s, !.victim = TorrentOf[s],
                                     !.lease = lease, !.done = done, !.pc = pc]
               /\ Others(r) /\ call'[r] = c
  BY UpdateOthers DEF Acquire
<1>2. Begins(r, "stream", pc, s) /\ Copies(r, {}, done)
  <2> HIDE DEF pc, lease, done
  <2> QED
    BY <1>1 DEF NoCall, Begins, Copies
<1> QED
  BY <1>2 DEF Acquire

LEMMA PollEffect ==
  ASSUME TypeOK, NEW r \in Request, ListDownloads(r)
  PROVE  /\ Others(r) /\ call'[r].pc = "refresh" /\ call'[r].op = "poll"
         /\ Copies(r, managed, complete) /\ "poll" \in May(r) /\ At(r, "idle")
<1>1. PICK c : /\ c = [NoCall EXCEPT !.op = "poll", !.pc = "refresh", !.rows = managed,
                                     !.lease = leased, !.done = complete]
               /\ Others(r) /\ call'[r] = c
  BY UpdateOthers DEF ListDownloads
<1>2. c.op = "poll" /\ c.pc = "refresh" /\ c.rows = managed /\ c.done = complete
  BY <1>1 DEF NoCall
<1> QED
  BY <1>1, <1>2 DEF Copies, ListDownloads

LEMMA InspectEffect ==
  ASSUME TypeOK, NEW r \in Request, Inspect(r)
  PROVE  \/ Route(r) \notin engine /\ Ends(r)
         \/ /\ Route(r) \notin engine /\ call[r].op = "stream"
            /\ Continues(r, "lease") /\ Copies(r, call[r].rows, call[r].done)
         \/ /\ Route(r) \in engine /\ Continues(r, "select")
            /\ Copies(r, RowsOf(Route(r)) \cup {call[r].source}, FilesOf(Route(r)) \cap onDisk)
<1>1. CASE Route(r) \in engine
  <2> DEFINE rows == RowsOf(Route(r)) \cup {call[r].source}
             done == FilesOf(Route(r)) \cap onDisk
  <2>1. PICK c : /\ c = [call[r] EXCEPT !.pc = "select", !.rows = rows, !.done = done]
                 /\ Others(r) /\ call'[r] = c
    BY <1>1 DEF Inspect, Others, TypeOK, Call
  <2> HIDE DEF rows, done
  <2>2. Continues(r, "select") /\ Copies(r, rows, done)
    BY <2>1, Fields DEF Continues, Copies
  <2> QED
    BY <1>1, <2>2 DEF rows, done
<1> QED
  BY <1>1, GotoEffect, ReturnEffect DEF Inspect

LEMMA SelectEffect ==
  ASSUME TypeOK, NEW r \in Request, SelectFiles(r)
  PROVE  \/ Route(r) \notin engine /\ Ends(r) /\ UNCHANGED selected
         \/ /\ Route(r) \in engine
            /\ selected' = (selected \ FilesOf(Route(r))) \cup call[r].rows
            /\ \/ At(r, "select") /\ Continues(r, "save") /\ Copies(r, {}, call[r].done)
               \/ /\ At(r, "apply") /\ call[r].op = "season"
                  /\ Continues(r, "rewrite") /\ Copies(r, FilesOf(Route(r)), call[r].done)
               \/ /\ At(r, "apply") /\ call[r].op # "season"
                  /\ Continues(r, "record") /\ Copies(r, {}, call[r].done)
<1>1. CASE Route(r) \in engine
  <2>1. PICK next : next = IF At(r, "select") THEN "save"
                           ELSE IF call[r].op = "season" THEN "rewrite" ELSE "record"
    OBVIOUS
  <2>2. PICK rows : rows = IF next = "rewrite" THEN FilesOf(Route(r)) ELSE {}
    OBVIOUS
  <2>3. /\ selected' = (selected \ FilesOf(Route(r))) \cup call[r].rows
        /\ call' = [call EXCEPT ![r].pc = next, ![r].rows = rows]
    BY <1>1, <2>1, <2>2 DEF SelectFiles
  <2>4. PICK c : c = [call[r] EXCEPT !.pc = next, !.rows = rows] /\ Others(r) /\ call'[r] = c
    BY <2>3 DEF Others, TypeOK, Call
  <2>5. Continues(r, next) /\ Copies(r, rows, call[r].done)
    BY <2>4, Fields DEF Continues, Copies
  <2> QED
    BY <1>1, <2>1, <2>2, <2>3, <2>5 DEF SelectFiles, At
<1> QED
  BY <1>1, ReturnEffect DEF SelectFiles

LEMMA FindEffect ==
  ASSUME TypeOK, NEW r \in Request, FindDownload(r)
  PROVE  \/ Ends(r)
         \/ /\ Others(r) /\ call'[r].op = "prepare" /\ call'[r].source = call[r].source
            /\ call'[r].victim = call[r].victim /\ call'[r].rows = call[r].rows
            /\ \/ call[r].source \notin managed /\ call'[r].pc = "adopt" /\ call'[r].done = call[r].done
               \/ /\ call[r].source \in managed /\ call'[r].pc = "inspect"
                  /\ call'[r].done = complete \cap {call[r].source}
<1> DEFINE s == call[r].source
<1>1. CASE s \notin managed
  <2>1. PICK c : c = [call[r] EXCEPT !.op = "prepare", !.pc = "adopt"] /\ Others(r) /\ call'[r] = c
    BY <1>1 DEF FindDownload, Others, TypeOK, Call
  <2> QED
    BY <1>1, <2>1, Fields
<1>2. CASE s \in managed /\ ~CompletedLocal(s, complete)
  <2> DEFINE lease == leased \cap {s}
             done == complete \cap {s}
  <2>1. PICK c : /\ c = [call[r] EXCEPT !.op = "prepare", !.pc = "inspect", !.lease = lease, !.done = done]
                 /\ Others(r) /\ call'[r] = c
    BY <1>2 DEF FindDownload, Others, TypeOK, Call
  <2> HIDE DEF lease, done
  <2>2. /\ c.op = "prepare" /\ c.pc = "inspect" /\ c.source = call[r].source /\ c.victim = call[r].victim
        /\ c.rows = call[r].rows /\ c.done = done
    BY <2>1, Fields
  <2> QED
    BY <1>2, <2>1, <2>2 DEF done
<1>3. CASE s \in managed /\ CompletedLocal(s, complete)
  BY <1>3, ReturnEffect DEF FindDownload
<1> QED
  BY <1>1, <1>2, <1>3

LEMMA AdoptEffect ==
  ASSUME TypeOK, NEW r \in Request, AdoptSibling(r)
  PROVE  \/ Ends(r)
         \/ RowsOf(Route(r)) = {} /\ Continues(r, AdmissionPC) /\ Copies(r, call[r].rows, call[r].done)
         \/ /\ RowsOf(Route(r)) # {} /\ Route(r) \in engine
            /\ Continues(r, "adopted") /\ Copies(r, call[r].rows, FilesOf(Route(r)) \cap onDisk)
<1>1. CASE RowsOf(Route(r)) = {}
  BY <1>1, GotoEffect DEF AdoptSibling
<1>2. CASE RowsOf(Route(r)) # {} /\ Route(r) \in engine
  <2> DEFINE done == FilesOf(Route(r)) \cap onDisk
  <2>1. PICK c : c = [call[r] EXCEPT !.pc = "adopted", !.lease = {}, !.done = done] /\ Others(r) /\ call'[r] = c
    BY <1>2 DEF AdoptSibling, Others, TypeOK, Call
  <2> HIDE DEF done
  <2>2. Continues(r, "adopted") /\ Copies(r, call[r].rows, done)
    BY <2>1, Fields DEF Continues, Copies
  <2> QED
    BY <1>2, <2>2 DEF done
<1>3. CASE RowsOf(Route(r)) # {} /\ Route(r) \notin engine
  BY <1>3, ReturnEffect DEF AdoptSibling
<1> QED
  BY <1>1, <1>2, <1>3

LEMMA FilesEffect ==
  ASSUME TypeOK, NEW r \in Request, ListFiles(r)
  PROVE  \/ Route(r) \notin engine /\ Ends(r)
         \/ /\ Route(r) \in engine /\ Continues(r, "apply")
            /\ Copies(r, RowsOf(Route(r)) \cup
                         (IF call[r].op = "season" THEN FilesOf(Route(r)) ELSE {call[r].source}),
                      FilesOf(Route(r)) \cap onDisk)
<1>1. CASE Route(r) \in engine
  <2> DEFINE rows == RowsOf(Route(r)) \cup
                     (IF call[r].op = "season" THEN FilesOf(Route(r)) ELSE {call[r].source})
             done == FilesOf(Route(r)) \cap onDisk
  <2>1. call' = [call EXCEPT ![r].pc = "apply", ![r].rows = rows, ![r].done = done]
    BY <1>1 DEF ListFiles
  <2> HIDE DEF rows, done
  <2>2. PICK c : /\ c = [call[r] EXCEPT !.pc = "apply", !.rows = rows, !.done = done]
                 /\ Others(r) /\ call'[r] = c
    BY <2>1 DEF Others, TypeOK, Call
  <2>3. Continues(r, "apply") /\ Copies(r, rows, done)
    BY <2>2, Fields DEF Continues, Copies
  <2> QED
    BY <1>1, <2>3 DEF rows, done
<1> QED
  BY <1>1, ReturnEffect DEF ListFiles

LEMMA SurveyEffect ==
  ASSUME TypeOK, NEW r \in Request, SurveyRows(r)
  PROVE  At(r, "survey") /\ Continues(r, "sample") /\ Copies(r, managed, call[r].done)
BY SurveyRowsShape DEF Continues, Copies, SameCall

LEMMA SampleEffect ==
  ASSUME TypeOK, NEW r \in Request, SampleRoute(r)
  PROVE  At(r, "sample") /\ Continues(r, "sample") /\ call'[r].done = call[r].done
BY SampleRouteShape DEF Continues, SameCall

\* The victim of an eviction replaces whatever the call held as one.
LEMMA ChooseEffect ==
  ASSUME TypeOK, NEW r \in Request, Choose(r)
  PROVE  /\ At(r, "sample")
         /\ \/ Ends(r)
            \/ call[r].op # "retain" /\ Continues(r, "add") /\ Copies(r, call[r].rows, call[r].done)
            \/ /\ Others(r) /\ call'[r].pc = "evict" /\ call'[r].op = call[r].op
               /\ call'[r].source = call[r].source /\ Copies(r, call[r].rows, call[r].done)
BY ChooseShape, GotoEffect, ReturnEffect DEF Copies, SameCall

LEMMA ForgetEffect ==
  ASSUME TypeOK, NEW r \in Request, ListForget(r)
  PROVE  Continues(r, "delete") /\ Copies(r, RowsOf(call[r].victim), call[r].done)
<1>1. PICK rows : rows = RowsOf(call[r].victim)
  OBVIOUS
<1>2. PICK c : c = [call[r] EXCEPT !.pc = "delete", !.rows = rows] /\ Others(r) /\ call'[r] = c
  BY <1>1 DEF ListForget, Others, TypeOK, Call
<1>3. Continues(r, "delete") /\ Copies(r, rows, call[r].done)
  BY <1>2, Fields DEF Continues, Copies
<1> QED
  BY <1>1, <1>3

\* A loop over rows drops the one it has dealt with.
Drops(r, s) == Continues(r, call[r].pc) /\ Copies(r, call[r].rows \ {s}, call[r].done)

LEMMA DropEffect ==
  ASSUME TypeOK, NEW r \in Request, NEW s, call' = [call EXCEPT ![r].rows = @ \ {s}]
  PROVE  Drops(r, s)
<1>1. PICK rows : rows = call[r].rows \ {s}
  OBVIOUS
<1>2. PICK c : c = [call[r] EXCEPT !.rows = rows] /\ Others(r) /\ call'[r] = c
  BY <1>1 DEF Others, TypeOK, Call
<1>3. /\ c.op = call[r].op /\ c.pc = call[r].pc /\ c.source = call[r].source /\ c.victim = call[r].victim
      /\ c.rows = rows /\ c.done = call[r].done
  BY <1>2, CallType DEF Call
<1> QED
  BY <1>1, <1>2, <1>3 DEF Drops, Continues, Copies

LEMMA RouteEffect ==
  ASSUME TypeOK, NEW r \in Request, ListRoute(r)
  PROVE  Continues(r, "rewrite") /\ Copies(r, RowsOf(Route(r)), complete)
<1>1. PICK rows : rows = RowsOf(Route(r))
  OBVIOUS
<1>2. PICK c : /\ c = [call[r] EXCEPT !.pc = "rewrite", !.rows = rows, !.lease = leased, !.done = complete]
               /\ Others(r) /\ call'[r] = c
  BY <1>1 DEF ListRoute, Others, TypeOK, Call
<1>3. Continues(r, "rewrite") /\ Copies(r, rows, complete)
  BY <1>2, Fields DEF Continues, Copies
<1> QED
  BY <1>1, <1>3

LEMMA DeleteEffect ==
  ASSUME TypeOK, NEW r \in Request, DeleteRow(r)
  PROVE  \E s \in call[r].rows :
           /\ First(call[r].rows, s) /\ s \in Source
           /\ managed' = managed \ {s} /\ complete' = complete \ {s}
           /\ IF s \in managed THEN Drops(r, s) ELSE Ends(r)
<1>1. PICK s \in call[r].rows :
        /\ First(call[r].rows, s) /\ managed' = managed \ {s} /\ complete' = complete \ {s}
        /\ IF s \in managed THEN call' = [call EXCEPT ![r].rows = @ \ {s}] ELSE Return(r)
  BY DEF DeleteRow
<1> QED
  BY <1>1, Fields, DropEffect, ReturnEffect

LEMMA RewriteEffect ==
  ASSUME TypeOK, NEW r \in Request, RewriteRow(r)
  PROVE  \E s \in call[r].rows :
           /\ s \in Source /\ Drops(r, s)
           /\ managed' = managed \cup {s} /\ complete' = With(complete, s, s \in call[r].done)
<1>1. PICK s \in call[r].rows :
        /\ SaveDownload(s, s \in call[r].lease, s \in call[r].done)
        /\ call' = [call EXCEPT ![r].rows = @ \ {s}]
  BY DEF RewriteRow
<1> QED
  BY <1>1, Fields, DropEffect DEF SaveDownload

LEMMA RefreshEffect ==
  ASSUME TypeOK, NEW r \in Request, RefreshRow(r)
  PROVE  \E s \in call[r].rows :
           /\ s \in Source /\ Drops(r, s) /\ managed' = managed \cup {s}
           /\ complete' = With(complete, s, IF TorrentOf[s] \in engine THEN s \in onDisk
                                            ELSE s \in call[r].done)
<1>1. PICK s \in call[r].rows :
        /\ SaveDownload(s, s \in call[r].lease,
                        IF TorrentOf[s] \in engine THEN s \in onDisk ELSE s \in call[r].done)
        /\ call' = [call EXCEPT ![r].rows = @ \ {s}]
  BY DEF RefreshRow
<1> QED
  BY <1>1, Fields, DropEffect DEF SaveDownload

-----------------------------------------------------------------------------
(* Removals among themselves.  NoDanglingRow is not inductive: that a call   *)
(* which finds a row gone may give up depends on another call that deletes   *)
(* the rest.  RemovalInv says that one call leads the deletion of a torrent: *)
(* it has the rows left, and the others are behind it in list order.         *)

Removing(r) ==
    /\ call[r].pc \in {"idle", "survey", "sample", "evict", "forget", "delete"}
    /\ ~At(r, "idle") => call[r].op \in {"remove", "retain"}
    /\ At(r, "survey") \/ At(r, "sample") => call[r].op = "retain"
    /\ At(r, "delete") =>
         /\ RowsOf(call[r].victim) \subseteq call[r].rows
         /\ call[r].rows \subseteq FilesOf(call[r].victim)
         /\ \A x \in call[r].rows \ managed, u \in RowsOf(call[r].victim) : x < u

Leads(r, t) ==
    /\ call[r].victim = t
    /\ At(r, "forget") \/ (At(r, "delete") /\ call[r].rows = RowsOf(t))

Led == \A t \in Torrent \ engine : RowsOf(t) # {} => \E r \in Request : Leads(r, t)

RemovalInv == OnlyRemovals => Led /\ \A r \in Request : Removing(r)

LEMMA OnlyRemovalsSame == ASSUME load' = load PROVE OnlyRemovals' <=> OnlyRemovals
BY DEF OnlyRemovals, May

\* A step of r that leaves the rows of the torrents alone, and r no leader.
LEMMA RemovalStep ==
  ASSUME RemovalInv, OnlyRemovals, NEW r \in Request, Others(r), UNCHANGED <<managed, engine, load>>,
         Removing(r)', \A t : Leads(r, t) => Leads(r, t)'
  PROVE  RemovalInv'
<1>1. \A t : RowsOf(t)' = RowsOf(t) /\ FilesOf(t)' = FilesOf(t)
  BY DEF RowsOf, FilesOf
<1>2. ASSUME NEW q \in Request, q # r
      PROVE  Removing(q)' /\ \A t : Leads(q, t) => Leads(q, t)'
  BY <1>1, <1>2 DEF RemovalInv, Others, Removing, Leads, At
<1>3. Led'
  BY <1>1, <1>2 DEF RemovalInv, Led
<1> QED
  BY <1>2, <1>3 DEF RemovalInv

LEMMA EndsRemoval ==
  ASSUME RemovalInv, OnlyRemovals, NEW r \in Request, Ends(r), UNCHANGED <<managed, engine, load>>,
         \A t : ~Leads(r, t)
  PROVE  RemovalInv'
<1>1. Removing(r)'
  BY NoCallFields DEF Ends, Removing, At
<1> QED
  BY <1>1, RemovalStep DEF Ends

LEMMA StartRemoves ==
  ASSUME TypeOK, RemovalInv, OnlyRemovals, NEW r \in Request, Start(r) PROVE RemovalInv'
<1>1. May(r) \subseteq {"remove", "retain"}
  BY DEF OnlyRemovals
<1>2. UNCHANGED <<managed, engine, load>>
  BY DEF Start, StartRetention, ListDownloads, Acquire, StartPrepare, StartSeason, Remove, Toggle,
         rowVars, engineVars
<1>3. \E s : At(r, "idle") /\ (Begins(r, "retain", "survey", s) \/ Begins(r, "remove", "evict", s))
  <2>1. \/ StartRetention(r)
        \/ \E s \in Asks(r) : Remove(r, s)
    BY <1>1 DEF Start, ListDownloads, Acquire, StartPrepare, StartSeason, Toggle, Begin
  <2> QED
    BY <2>1, BeginEffect, RemoveEffect DEF StartRetention
<1>4. Others(r) /\ At(r, "idle") /\ Removing(r)'
  BY <1>3 DEF Begins, Removing, At
<1>5. \A t : ~Leads(r, t)
  BY <1>4 DEF Leads, At
<1> QED
  BY <1>2, <1>4, <1>5, RemovalStep

LEMMA EngineRemoveLeads ==
  ASSUME TypeOK, RemovalInv, OnlyRemovals, NEW r \in Request, EngineRemove(r) PROVE RemovalInv'
<1>0. PICK v : v = call[r].victim
  OBVIOUS
<1>1. /\ At(r, "evict") /\ UNCHANGED <<managed, load>> /\ engine' = engine \ {v}
      /\ Continues(r, "forget")
  BY <1>0, GotoEffect DEF EngineRemove, rowVars
<1>2. \A t : RowsOf(t)' = RowsOf(t) /\ FilesOf(t)' = FilesOf(t)
  BY <1>1 DEF RowsOf, FilesOf
<1>3. Removing(r)'
  BY <1>1 DEF RemovalInv, Removing, Continues, At
<1>4. ASSUME NEW q \in Request, q # r
      PROVE  Removing(q)' /\ \A t : Leads(q, t) => Leads(q, t)'
  BY <1>1, <1>2, <1>4 DEF RemovalInv, Continues, Others, Removing, Leads, At
<1>5. Leads(r, v)' /\ \A t : ~Leads(r, t)
  BY <1>0, <1>1 DEF Continues, Leads, At
<1>6. Led'
  BY <1>1, <1>2, <1>4, <1>5 DEF RemovalInv, Led
<1> QED
  BY <1>3, <1>4, <1>6, OnlyRemovalsSame DEF RemovalInv

LEMMA ForgetLeads ==
  ASSUME TypeOK, RemovalInv, OnlyRemovals, NEW r \in Request, ListForget(r) PROVE RemovalInv'
<1>1. /\ At(r, "forget") /\ UNCHANGED <<managed, engine, load>>
      /\ Continues(r, "delete") /\ Copies(r, RowsOf(call[r].victim), call[r].done)
  BY ForgetEffect DEF ListForget, rowVars, engineVars
<1>2. \A t : RowsOf(t)' = RowsOf(t) /\ FilesOf(t)' = FilesOf(t)
  BY <1>1 DEF RowsOf, FilesOf
<1>3. RowsOf(call[r].victim) \subseteq managed \cap FilesOf(call[r].victim)
  BY DEF RowsOf
<1>4. Removing(r)'
  BY <1>1, <1>2, <1>3 DEF RemovalInv, Removing, Continues, Copies, At
<1>5. \A t : Leads(r, t) => Leads(r, t)'
  BY <1>1, <1>2 DEF Leads, Continues, Copies, At
<1> QED
  BY <1>1, <1>4, <1>5, RemovalStep DEF Continues

\* The first row of a call is a row still: the call has all rows left, and no more.
LEMMA FirstLeads ==
  ASSUME TypeOK, NEW r \in Request, Removing(r), At(r, "delete"),
         NEW s \in call[r].rows, First(call[r].rows, s), s \in managed
  PROVE  call[r].rows = RowsOf(call[r].victim)
<1>1. s \in RowsOf(call[r].victim)
  BY DEF Removing, RowsOf
<1>2. ASSUME NEW x \in call[r].rows, x \notin managed PROVE FALSE
  <2>1. x \in Nat /\ s \in Nat
    BY Fields, ConstantsAssumption
  <2>2. x < s /\ s <= x
    BY <1>1, <1>2 DEF Removing, First
  <2> QED
    BY <2>1, <2>2
<1> QED
  BY <1>2 DEF Removing, RowsOf

LEMMA DeleteRowLeads ==
  ASSUME TypeOK, RemovalInv, OnlyRemovals, NEW r \in Request, DeleteRow(r) PROVE RemovalInv'
<1> PICK t : t = call[r].victim
  OBVIOUS
<1>1. At(r, "delete") /\ UNCHANGED <<engine, load>> /\ Removing(r)
  BY DEF DeleteRow, engineVars, RemovalInv
<1>2. PICK s \in call[r].rows :
        /\ First(call[r].rows, s) /\ s \in Source /\ managed' = managed \ {s}
        /\ IF s \in managed THEN Drops(r, s) ELSE Ends(r)
  BY DeleteEffect
<1>3. \A u : FilesOf(u)' = FilesOf(u)
  BY DEF FilesOf
<1>4. CASE s \notin managed
  <2>1. managed' = managed
    BY <1>2, <1>4
  <2>2. \A u : ~Leads(r, u)
    BY <1>1, <1>2, <1>4 DEF Leads, At, RowsOf
  <2> QED
    BY <1>1, <1>2, <1>4, <2>1, <2>2, EndsRemoval
<1>5. CASE s \in managed
  <2>1. call[r].rows = RowsOf(t)
    BY <1>1, <1>2, <1>5, FirstLeads
  <2>2. s \in FilesOf(t) /\ \A u : u # t => s \notin FilesOf(u)
    BY <1>2, <2>1 DEF RowsOf, FilesOf
  <2>3. RowsOf(t)' = RowsOf(t) \ {s} /\ \A u : u # t => RowsOf(u)' = RowsOf(u)
    BY <1>2, <1>3, <2>2 DEF RowsOf
  <2>4. Drops(r, s)
    BY <1>2, <1>5
  <2>5. /\ Others(r) /\ call'[r].pc = "delete" /\ call'[r].op = call[r].op /\ call'[r].victim = t
        /\ call'[r].rows = RowsOf(t)'
    BY <1>1, <2>1, <2>3, <2>4 DEF Drops, Continues, Copies, At
  <2>6. Removing(r)'
    <3>1. RowsOf(t)' \subseteq managed' /\ RowsOf(t)' \subseteq FilesOf(t)'
      BY DEF RowsOf
    <3>2. call'[r].op \in {"remove", "retain"}
      BY <1>1, <2>5 DEF Removing, At
    <3> QED
      BY <2>5, <3>1, <3>2 DEF Removing, At
  <2>7. ASSUME NEW q \in Request, q # r PROVE Removing(q)'
    <3>1. call'[q] = call[q] /\ Removing(q)
      BY <2>5, <2>7 DEF Others, RemovalInv
    <3>2. ASSUME At(q, "delete"), call[q].victim = t
          PROVE  /\ RowsOf(t)' \subseteq call[q].rows /\ call[q].rows \subseteq FilesOf(t)
                 /\ \A x \in call[q].rows \ managed', u \in RowsOf(t)' : x < u
      <4>1. RowsOf(t)' \subseteq call[q].rows /\ call[q].rows \subseteq FilesOf(t)
        BY <2>3, <3>1, <3>2 DEF Removing
      <4>2. ASSUME NEW x \in call[q].rows \ managed', NEW u \in RowsOf(t)' PROVE x < u
        <5>1. u \in RowsOf(t) /\ u # s
          BY <2>3, <4>2
        <5>2. CASE x = s
          <6>1. s \in Nat /\ u \in Nat
            BY <1>2, <5>1, ConstantsAssumption DEF RowsOf, TypeOK
          <6>2. s <= u
            BY <1>2, <2>1, <5>1 DEF First
          <6> QED
            BY <5>1, <5>2, <6>1, <6>2
        <5>3. CASE x # s
          BY <1>2, <3>1, <3>2, <4>2, <5>1, <5>3 DEF Removing
        <5> QED
          BY <5>2, <5>3
      <4> QED
        BY <4>1, <4>2
    <3>3. ASSUME At(q, "delete"), call[q].victim # t
          PROVE  /\ RowsOf(call[q].victim)' = RowsOf(call[q].victim)
                 /\ call[q].rows \ managed' = call[q].rows \ managed
      BY <1>2, <2>2, <2>3, <3>1, <3>3 DEF Removing
    <3>4. CASE At(q, "delete") /\ call[q].victim = t
      BY <1>3, <3>1, <3>2, <3>4 DEF Removing, At
    <3>5. CASE At(q, "delete") /\ call[q].victim # t
      BY <1>3, <3>1, <3>3, <3>5 DEF Removing, At
    <3>6. CASE ~At(q, "delete")
      BY <3>1, <3>6 DEF Removing, At
    <3> QED
      BY <3>4, <3>5, <3>6
  <2>8. Leads(r, t)'
    BY <2>5 DEF Leads, At
  <2>9. \A u \in Torrent \ engine : u # t /\ RowsOf(u)' # {} => \E q \in Request : Leads(q, u)'
    <3> SUFFICES ASSUME NEW u \in Torrent \ engine, u # t, RowsOf(u)' # {}
                 PROVE  \E q \in Request : Leads(q, u)'
      OBVIOUS
    <3>1. PICK q \in Request : Leads(q, u)
      BY <2>3 DEF RemovalInv, Led
    <3>2. q # r
      BY <3>1 DEF Leads
    <3> QED
      BY <2>3, <2>5, <3>1, <3>2 DEF Leads, Others, At
  <2>10. Led'
    BY <1>1, <2>8, <2>9 DEF Led
  <2> QED
    BY <2>6, <2>7, <2>10 DEF RemovalInv
<1> QED
  BY <1>4, <1>5

LEMMA SurveyLeads ==
  ASSUME TypeOK, RemovalInv, OnlyRemovals, NEW r \in Request,
         SurveyRows(r) \/ SampleRoute(r) \/ Choose(r) \/ Forgotten(r)
  PROVE  RemovalInv'
<1>1. UNCHANGED <<managed, engine, load>> /\ Removing(r)
  BY DEF SurveyRows, SampleRoute, Choose, Forgotten, rowVars, engineVars, RemovalInv
<1>2. CASE SurveyRows(r) \/ SampleRoute(r) \/ Choose(r)
  <2>1. At(r, "survey") \/ At(r, "sample")
    BY <1>2, SurveyEffect, SampleEffect, ChooseEffect
  <2>2. call[r].op = "retain" /\ \A t : ~Leads(r, t)
    BY <1>1, <2>1 DEF Removing, Leads, At
  <2>3. CASE Ends(r)
    BY <1>1, <2>2, <2>3, EndsRemoval
  <2>4. CASE Others(r) /\ call'[r].pc \in {"sample", "evict"} /\ call'[r].op = call[r].op
    <3>1. Removing(r)'
      BY <2>2, <2>4 DEF Removing, At
    <3> QED
      BY <1>1, <2>2, <2>4, <3>1, RemovalStep
  <2> QED
    BY <1>2, <2>2, <2>3, <2>4, SurveyEffect, SampleEffect, ChooseEffect DEF Continues
<1>3. CASE Forgotten(r)
  <2>1. At(r, "delete") /\ call[r].rows = {} /\ call[r].op \in {"remove", "retain"}
    BY <1>1, <1>3 DEF Forgotten, Removing, At
  <2>2. Ends(r) \/ (Continues(r, "survey") /\ call[r].op = "retain")
    BY <1>3, <2>1, GotoEffect, ReturnEffect DEF Forgotten
  <2>3. UNCHANGED <<managed, engine, load>> /\ \A t : RowsOf(t)' = RowsOf(t)
    BY <1>1 DEF RowsOf, FilesOf
  <2>4. \A t : Leads(r, t) => RowsOf(t) = {}
    BY <2>1 DEF Leads, At
  <2>5. Removing(r)'
    BY <2>2, NoCallFields DEF Ends, Continues, Removing, At
  <2>6. ASSUME NEW q \in Request, q # r
        PROVE  Removing(q)' /\ \A t : Leads(q, t) => Leads(q, t)'
    <3>1. call'[q] = call[q]
      BY <2>2, <2>6 DEF Ends, Continues, Others
    <3> QED
      BY <2>3, <3>1 DEF RemovalInv, Removing, Leads, At, FilesOf
  <2>7. Led'
    BY <2>3, <2>4, <2>6 DEF RemovalInv, Led
  <2> QED
    BY <2>5, <2>6, <2>7 DEF RemovalInv
<1> QED
  BY <1>2, <1>3

LEMMA LoadSame == ASSUME [Next]_vars PROVE load' = load
<1>1. ASSUME NEW r \in Request, Start(r) PROVE load' = load
  BY <1>1 DEF Start, StartRetention, ListDownloads, Acquire, StartPrepare, StartSeason, Remove, Toggle
<1>2. ASSUME NEW r \in Request, Step(r) PROVE load' = load
  <2>1. CASE SetLease(r) \/ Inspect(r) \/ SelectFiles(r) \/ SaveManaged(r) \/ FindDownload(r)
    BY <2>1 DEF SetLease, Inspect, SelectFiles, SaveManaged, FindDownload
  <2>2. CASE AdoptSibling(r) \/ SaveAdopted(r) \/ FindSeason(r) \/ AddTorrent(r) \/ ListFiles(r)
    BY <2>2 DEF AdoptSibling, SaveAdopted, FindSeason, AddTorrent, ListFiles
  <2>3. CASE RecordDownload(r) \/ EngineRemove(r) \/ ListForget(r) \/ DeleteRow(r)
    BY <2>3 DEF RecordDownload, EngineRemove, ListForget, DeleteRow
  <2>5. CASE SurveyRows(r) \/ SampleRoute(r) \/ Choose(r)
    BY <2>5 DEF SurveyRows, SampleRoute, Choose
  <2>4. CASE Forgotten(r) \/ RefreshRow(r) \/ ListRoute(r) \/ RewriteRow(r) \/ Written(r)
    BY <2>4 DEF Forgotten, RefreshRow, ListRoute, RewriteRow, Written
  <2> QED
    BY <1>2, <2>1, <2>2, <2>3, <2>4, <2>5 DEF Step
<1> QED
  BY <1>1, <1>2 DEF Next, Release, Fail, FinishFile, Vanish, Crash, vars

LEMMA NextRemoves == ASSUME TypeOK, RemovalInv, [Next]_vars PROVE RemovalInv'
<1>1. load' = load
  BY LoadSame
<1> SUFFICES ASSUME OnlyRemovals PROVE RemovalInv'
  BY <1>1, OnlyRemovalsSame DEF RemovalInv
<1>2. ASSUME NEW r \in Request, Step(r) PROVE RemovalInv'
  <2>1. Removing(r)
    BY DEF RemovalInv
  <2>2. SurveyRows(r) \/ SampleRoute(r) \/ Choose(r) \/ EngineRemove(r) \/ ListForget(r) \/ DeleteRow(r) \/ Forgotten(r)
    BY <1>2, <2>1 DEF Step, Removing, At, SetLease, Inspect, SelectFiles, SaveManaged, FindDownload,
                      AdoptSibling, SaveAdopted, FindSeason, AddTorrent, ListFiles, RecordDownload,
                      RefreshRow, ListRoute, RewriteRow, Written
  <2> QED
    BY <2>2, SurveyLeads, EngineRemoveLeads, ForgetLeads, DeleteRowLeads
<1>3. ASSUME NEW r \in Request, Release(r) PROVE FALSE
  BY <1>3 DEF Release, RemovalInv, Removing, At
<1>4. CASE UNCHANGED <<managed, engine, call>>
  BY <1>1, <1>4 DEF RemovalInv, Led, Leads, Removing, At, RowsOf, FilesOf
<1>5. ~(\E r \in Request : Fail(r)) /\ ~(\E t \in Torrent : Vanish(t)) /\ ~Crash
  BY DEF OnlyRemovals, Fail, Vanish, Crash
<1> QED
  BY <1>2, <1>3, <1>4, <1>5, StartRemoves DEF Next, FinishFile, vars, rowVars

LEMMA InitRemoves == Init => RemovalInv
<1> SUFFICES ASSUME Init PROVE RemovalInv
  OBVIOUS
<1>1. \A r \in Request : Removing(r)
  BY NoCallFields DEF Init, Removing, At
<1>2. \A t \in Torrent \ engine : RowsOf(t) = {}
  BY DEF Init, RowsOf, FilesOf
<1> QED
  BY <1>1, <1>2 DEF RemovalInv, Led

\* However removals and evictions run into each other, once they all returned no
\* row points at a torrent the engine removed.
THEOREM RemovalsForgetRows == Spec => []NoDanglingRow
<1>1. Init => TypeOK /\ RemovalInv
  BY InitType, InitRemoves
<1>2. TypeOK /\ RemovalInv /\ [Next]_vars => RemovalInv'
  BY NextRemoves
<1>3. TypeOK /\ RemovalInv => NoDanglingRow
  <2> SUFFICES ASSUME TypeOK, RemovalInv, OnlyRemovals, Quiescent, NEW s \in managed
               PROVE  TorrentOf[s] \in engine
    BY DEF NoDanglingRow, RowsForgotten
  <2>1. s \in RowsOf(TorrentOf[s]) /\ TorrentOf[s] \in Torrent
    BY ConstantsAssumption DEF RowsOf, FilesOf, TypeOK
  <2>2. \A r \in Request : ~At(r, "forget") /\ ~At(r, "delete")
    BY DEF Quiescent, InFlight, At
  <2> QED
    BY <2>1, <2>2 DEF RemovalInv, Led, Leads
<1> QED
  BY <1>1, <1>2, <1>3, TypeCorrect, PTL DEF Spec

-----------------------------------------------------------------------------
(* One goroutine works on the library, the others are its guests: they only  *)
(* stream, pause and resume.                                                 *)

Lone(r, ops) == load.faults = {} /\ \A q \in Request \ {r} : May(q) \subseteq ops

GuestPC(op) == IF op = "stream" THEN {"inspect", "select", "save", "lease", "streaming"}
                                ELSE {"list", "rewrite"}

Guest(q) ==
    \/ At(q, "idle")
    \/ /\ call[q].op \in May(q) \cap {"stream", "pause", "resume"}
       /\ call[q].pc \in GuestPC(call[q].op)

LEMMA LoneSame ==
  ASSUME load' = load, NEW r, NEW ops PROVE Lone(r, ops)' <=> Lone(r, ops)
BY DEF Lone, May

LEMMA GuestSame ==
  ASSUME load' = load, NEW q, call'[q] = call[q], Guest(q) PROVE Guest(q)'
BY DEF Guest, At, May

\* What a guest does: its steps are those of a stream and of a row loop.
GuestSteps(q) ==
    \/ \E s \in managed : Acquire(q, s)
    \/ \E s \in managed, op \in {"pause", "resume"} : Toggle(q, op, s) /\ TorrentOf[s] \in engine
    \/ SetLease(q) \/ Inspect(q) \/ (At(q, "select") /\ SelectFiles(q)) \/ SaveManaged(q) \/ Release(q)
    \/ ListRoute(q) \/ RewriteRow(q) \/ Written(q)

LEMMA GuestActs ==
  ASSUME TypeOK, NEW q \in Request, May(q) \subseteq {"stream", "pause", "resume"}, Guest(q),
         load.faults = {}, Start(q) \/ Step(q) \/ Release(q) \/ Fail(q)
  PROVE  GuestSteps(q)
<1>1. CASE Start(q)
  <2>1. ASSUME NEW s, NEW op \in {"pause", "resume", "retry"}, Toggle(q, op, s)
        PROVE  s \in managed /\ op \in {"pause", "resume"} /\ TorrentOf[s] \in engine
    <3>1. op \in May(q)
      BY <2>1 DEF Toggle, Begin
    <3> QED
      BY <2>1, <3>1 DEF Toggle
  <2>2. ~StartRetention(q) /\ ~ListDownloads(q) /\ \A s : ~StartPrepare(q, s) /\ ~StartSeason(q, s) /\ ~Remove(q, s)
    BY DEF StartRetention, ListDownloads, StartPrepare, StartSeason, Remove, Begin
  <2>3. \A s : Acquire(q, s) => s \in managed
    BY DEF Acquire
  <2> QED
    BY <1>1, <2>1, <2>2, <2>3 DEF Start, GuestSteps
<1>2. CASE Step(q)
  <2>1. call[q].pc \in {"idle", "inspect", "select", "save", "lease", "streaming", "list", "rewrite"}
    BY DEF Guest, GuestPC, At
  <2>2. ~FindDownload(q) /\ ~AdoptSibling(q) /\ ~SaveAdopted(q) /\ ~FindSeason(q) /\ ~AddTorrent(q)
        /\ ~ListFiles(q) /\ ~RecordDownload(q) /\ ~SurveyRows(q) /\ ~SampleRoute(q) /\ ~Choose(q)
    BY <2>1 DEF FindDownload, AdoptSibling, SaveAdopted, FindSeason, AddTorrent, ListFiles,
                RecordDownload, SurveyRows, SampleRoute, Choose, At
  <2>3. ~EngineRemove(q) /\ ~ListForget(q) /\ ~DeleteRow(q) /\ ~Forgotten(q) /\ ~RefreshRow(q)
        /\ (SelectFiles(q) => At(q, "select"))
    BY <2>1 DEF EngineRemove, ListForget, DeleteRow, Forgotten, RefreshRow, SelectFiles, At
  <2> QED
    BY <1>2, <2>2, <2>3 DEF Step, GuestSteps
<1> QED
  BY <1>1, <1>2 DEF Fail, GuestSteps

LEMMA EndsGuest == ASSUME NEW q \in Request, Ends(q) PROVE Guest(q)'
BY NoCallFields DEF Ends, Guest, At

\* A guest stays one, and neither adds a torrent nor takes anything away.
LEMMA GuestStays ==
  ASSUME TypeOK, NEW q \in Request, Guest(q), GuestSteps(q), load' = load
  PROVE  Others(q) /\ Guest(q)' /\ engine' = engine /\ managed \subseteq managed'
<1> USE DEF rowVars, engineVars
<1>0. May(q)' = May(q)
  BY DEF May
<1>1. ASSUME NEW s, Acquire(q, s)
      PROVE  Others(q) /\ Guest(q)' /\ engine' = engine /\ managed \subseteq managed'
  <2>1. Others(q) /\ call'[q].op = "stream" /\ call'[q].pc \in {"lease", "inspect"} /\ "stream" \in May(q)
    BY <1>1, AcquireEffect DEF Begins
  <2> QED
    BY <1>0, <1>1, <2>1 DEF Acquire, Guest, GuestPC
<1>2. ASSUME NEW s, NEW op \in {"pause", "resume"}, Toggle(q, op, s), TorrentOf[s] \in engine
      PROVE  Others(q) /\ Guest(q)' /\ engine' = engine /\ managed \subseteq managed'
  <2>1. Others(q) /\ call'[q].op = op /\ call'[q].pc = "list" /\ op \in May(q)
    BY <1>2, BeginEffect DEF Toggle, Begins
  <2> QED
    BY <1>0, <1>2, <2>1 DEF Toggle, Guest, GuestPC
<1>3. CASE SetLease(q)
  <2>1. At(q, "lease") /\ (Continues(q, "streaming") \/ Ends(q))
    BY <1>3, GotoEffect, ReturnEffect DEF SetLease
  <2>2. Guest(q)'
    BY <1>0, <2>1, EndsGuest DEF Guest, GuestPC, Continues, At
  <2> QED
    BY <1>3, <2>1, <2>2 DEF SetLease, Continues, Ends
<1>4. CASE Inspect(q)
  <2>1. /\ At(q, "inspect")
        /\ Continues(q, "select") \/ Ends(q) \/ (call[q].op = "stream" /\ Continues(q, "lease"))
    BY <1>4, InspectEffect DEF Inspect
  <2>2. Guest(q)'
    BY <1>0, <2>1, EndsGuest DEF Guest, GuestPC, Continues, At
  <2> QED
    BY <1>4, <2>1, <2>2 DEF Inspect, Continues, Ends
<1>5. CASE At(q, "select") /\ SelectFiles(q)
  <2>1. Continues(q, "save") \/ Ends(q)
    BY <1>5, SelectEffect DEF At
  <2>2. Guest(q)'
    BY <1>0, <1>5, <2>1, EndsGuest DEF Guest, GuestPC, Continues, At
  <2> QED
    BY <1>5, <2>1, <2>2 DEF SelectFiles, Continues, Ends
<1>6. CASE SaveManaged(q)
  <2>1. At(q, "save") /\ ((call[q].op = "stream" /\ Continues(q, "lease")) \/ Ends(q))
    BY <1>6, GotoEffect, ReturnEffect DEF SaveManaged
  <2>2. Guest(q)'
    BY <1>0, <2>1, EndsGuest DEF Guest, GuestPC, Continues, At
  <2> QED
    BY <1>6, <2>1, <2>2 DEF SaveManaged, SaveDownload, Continues, Ends
<1>7. CASE Release(q) \/ Written(q)
  BY <1>7, ReturnEffect, EndsGuest DEF Release, Written, Ends
<1>8. CASE ListRoute(q)
  <2>1. At(q, "list") /\ Continues(q, "rewrite")
    BY <1>8, RouteEffect DEF ListRoute
  <2> QED
    BY <1>0, <1>8, <2>1 DEF ListRoute, Guest, GuestPC, Continues, At
<1>9. CASE RewriteRow(q)
  <2>1. PICK s : Drops(q, s) /\ managed' = managed \cup {s}
    BY <1>9, RewriteEffect
  <2>2. Guest(q)'
    BY <1>0, <1>9, <2>1 DEF RewriteRow, Guest, Drops, Continues, At
  <2> QED
    BY <1>9, <2>1, <2>2 DEF RewriteRow, Drops, Continues
<1> QED
  BY <1>1, <1>2, <1>3, <1>4, <1>5, <1>6, <1>7, <1>8, <1>9 DEF GuestSteps

\* The guests are only among themselves idle or at their own steps.
GuestsOf(r) == \A q \in Request \ {r} : Guest(q)

-----------------------------------------------------------------------------
(* Every torrent has a row.  A new one has none until its call has finished. *)

Finishing(r, t) ==
    /\ Route(r) = t
    /\ \/ call[r].pc \in {"files", "apply", "record"}
       \/ At(r, "rewrite") /\ call[r].rows # {} /\ call[r].rows \subseteq FilesOf(t)

Tending(r) ==
    /\ \A t \in engine : RowsOf(t) # {} \/ Finishing(r, t)
    /\ call[r].pc \in {"forget", "delete"} => call[r].victim \notin engine
    /\ At(r, "delete") => call[r].rows \subseteq FilesOf(call[r].victim)

OrphanInv == \A r \in Request : Lone(r, {"stream"}) => GuestsOf(r) /\ Tending(r)

\* No row leaves: every torrent the call was finishing has a row or is still its own.
LEMMA TendStep ==
  ASSUME NEW r \in Request, Tending(r), engine' = engine, managed \subseteq managed',
         call'[r].pc \notin {"forget", "delete"},
         \A t \in engine : Finishing(r, t) => RowsOf(t)' # {} \/ Finishing(r, t)'
  PROVE  Tending(r)'
<1>1. \A t : RowsOf(t) \subseteq RowsOf(t)'
  BY DEF RowsOf, FilesOf
<1> QED
  BY <1>1 DEF Tending, At

LEMMA GuestTends ==
  ASSUME NEW r \in Request, Tending(r), call'[r] = call[r], engine' = engine, managed \subseteq managed'
  PROVE  Tending(r)'
<1>1. \A t : RowsOf(t) \subseteq RowsOf(t)' /\ FilesOf(t)' = FilesOf(t) /\ (Finishing(r, t)' <=> Finishing(r, t))
  BY DEF RowsOf, FilesOf, Finishing, Route, At
<1> QED
  BY <1>1 DEF Tending, At

LEMMA StartTends ==
  ASSUME TypeOK, NEW r \in Request, Tending(r), Start(r)
  PROVE  Others(r) /\ Tending(r)'
<1>1. engine' = engine /\ managed' = managed
  BY DEF Start, StartRetention, ListDownloads, Acquire, StartPrepare, StartSeason, Remove, Toggle,
         rowVars, engineVars
<1>2. At(r, "idle") /\ \A t : ~Finishing(r, t)
  BY DEF Start, StartRetention, ListDownloads, Acquire, StartPrepare, StartSeason, Remove, Toggle,
         Begin, Finishing, At
<1>3. ASSUME Others(r), call'[r].pc \notin {"forget", "delete"} PROVE Others(r) /\ Tending(r)'
  BY <1>1, <1>2, <1>3, TendStep
<1>4. ASSUME NEW op, NEW pc, NEW s, Begin(r, op, pc, s), pc \notin {"forget", "delete"}
      PROVE  Others(r) /\ Tending(r)'
  BY <1>3, <1>4, BeginEffect DEF Begins
<1>5. ASSUME NEW s, Acquire(r, s) PROVE Others(r) /\ Tending(r)'
  BY <1>3, <1>5, AcquireEffect DEF Begins
<1>6. ASSUME NEW s, NEW op, Toggle(r, op, s) PROVE Others(r) /\ Tending(r)'
  <2>1. CASE TorrentOf[s] \in engine
    BY <1>4, <1>6, <2>1 DEF Toggle
  <2>2. CASE TorrentOf[s] \notin engine
    <3>1. Begin(r, op, "forget", s)
      BY <1>6, <2>2 DEF Toggle
    <3>2. Others(r) /\ call'[r].pc = "forget" /\ call'[r].victim = TorrentOf[s]
      BY <3>1, BeginEffect DEF Begins
    <3>3. \A t : RowsOf(t)' = RowsOf(t)
      BY <1>1 DEF RowsOf, FilesOf
    <3> QED
      BY <1>1, <1>2, <2>2, <3>2, <3>3 DEF Tending, At
  <2> QED
    BY <2>1, <2>2
<1>7. CASE ListDownloads(r)
  BY <1>3, <1>7, PollEffect
<1>8. ASSUME NEW s, Remove(r, s) PROVE Others(r) /\ Tending(r)'
  BY <1>3, <1>8, RemoveEffect DEF Begins
<1> QED
  BY <1>4, <1>5, <1>6, <1>7, <1>8 DEF Start, StartRetention, StartPrepare, StartSeason

\* The steps that only move a call on.
LEMMA MoveTends ==
  ASSUME TypeOK, NEW r \in Request, Tending(r), \A t : ~Finishing(r, t),
         \/ SetLease(r) \/ Inspect(r) \/ SaveManaged(r) \/ FindDownload(r) \/ AdoptSibling(r)
         \/ SaveAdopted(r) \/ FindSeason(r) \/ SurveyRows(r) \/ SampleRoute(r) \/ Choose(r) \/ Forgotten(r)
         \/ RefreshRow(r) \/ ListRoute(r) \/ Written(r) \/ Release(r)
  PROVE  Others(r) /\ Tending(r)'
<1>1. engine' = engine /\ managed \subseteq managed'
  BY DEF SetLease, Inspect, SaveManaged, FindDownload, AdoptSibling, SaveAdopted, FindSeason, SurveyRows,
         SampleRoute, Choose, Forgotten, RefreshRow, ListRoute, Written, Release, SaveDownload, rowVars, engineVars
<1>2. ASSUME Others(r), call'[r].pc \notin {"forget", "delete"} PROVE Others(r) /\ Tending(r)'
  BY <1>1, <1>2, TendStep
<1>3. ASSUME Ends(r) PROVE Others(r) /\ Tending(r)'
  BY <1>2, <1>3, NoCallFields DEF Ends
<1>4. ASSUME NEW pc, Continues(r, pc), pc \notin {"forget", "delete"} PROVE Others(r) /\ Tending(r)'
  BY <1>2, <1>4 DEF Continues
<1>5. CASE SetLease(r) \/ SaveManaged(r) \/ SaveAdopted(r) \/ FindSeason(r) \/ Forgotten(r) \/ Written(r) \/ Release(r)
  <2>1. \/ Return(r) \/ Goto(r, "streaming") \/ Goto(r, "lease") \/ Goto(r, "inspect") \/ Goto(r, "files")
        \/ Goto(r, "add") \/ Goto(r, "survey") \/ Goto(r, "prepare")
    BY <1>5 DEF SetLease, SaveManaged, SaveAdopted, FindSeason, Forgotten, Written, Release, AdmissionPC
  <2> QED
    BY <1>3, <1>4, <2>1, GotoEffect, ReturnEffect
<1>6. CASE Inspect(r) \/ AdoptSibling(r) \/ ListRoute(r)
  BY <1>3, <1>4, <1>6, InspectEffect, AdoptEffect, RouteEffect DEF AdmissionPC
<1>7. CASE FindDownload(r) \/ SurveyRows(r) \/ SampleRoute(r) \/ Choose(r)
  BY <1>2, <1>3, <1>4, <1>7, FindEffect, SurveyEffect, SampleEffect, ChooseEffect
<1>8. CASE RefreshRow(r)
  <2>1. PICK s : Drops(r, s)
    BY <1>8, RefreshEffect
  <2>2. Continues(r, "refresh")
    BY <1>8, <2>1 DEF RefreshRow, Drops, At
  <2> QED
    BY <1>4, <2>2
<1> QED
  BY <1>5, <1>6, <1>7, <1>8

\* The steps of a call that adds a torrent and writes its rows.
LEMMA FinishTends ==
  ASSUME TypeOK, NEW r \in Request, Tending(r),
         AddTorrent(r) \/ ListFiles(r) \/ SelectFiles(r) \/ RecordDownload(r) \/ RewriteRow(r)
  PROVE  Others(r) /\ Tending(r)'
<1>1. \A t : FilesOf(t)' = FilesOf(t)
  BY DEF FilesOf
<1>2. CASE AddTorrent(r)
  <2>1. engine' = engine \cup {Route(r)} /\ managed' = managed /\ Continues(r, "files") /\ At(r, "add")
    BY <1>2, GotoEffect DEF AddTorrent, rowVars
  <2>2. Finishing(r, Route(r))' /\ \A t : RowsOf(t)' = RowsOf(t) /\ ~Finishing(r, t)
    BY <2>1 DEF Finishing, Continues, Route, RowsOf, FilesOf, At
  <2>3. Route(r)' = Route(r)
    BY <2>1 DEF Continues, Route
  <2> QED
    BY <2>1, <2>2, <2>3 DEF Tending, Continues, At
<1>3. CASE ListFiles(r)
  <2>1. engine' = engine /\ managed' = managed
    BY <1>3 DEF ListFiles, rowVars, engineVars
  <2>2. CASE Route(r) \notin engine /\ Ends(r)
    BY <2>1, <2>2, NoCallFields, TendStep DEF Ends, Finishing
  <2>3. CASE Continues(r, "apply")
    <3>1. \A t : Finishing(r, t) => Finishing(r, t)'
      BY <2>3 DEF Finishing, Continues, Route
    <3> QED
      BY <2>1, <2>3, <3>1, TendStep DEF Continues
  <2> QED
    BY <1>3, <2>2, <2>3, FilesEffect
<1>4. CASE SelectFiles(r)
  <2>1. engine' = engine /\ managed' = managed
    BY <1>4 DEF SelectFiles, rowVars
  <2>2. CASE Route(r) \notin engine /\ Ends(r)
    BY <2>1, <2>2, NoCallFields, TendStep DEF Ends, Finishing
  <2>3. CASE At(r, "select") /\ Continues(r, "save")
    <3>1. \A t : ~Finishing(r, t)
      BY <2>3 DEF Finishing, At
    <3> QED
      BY <2>1, <2>3, <3>1, TendStep DEF Continues
  <2>4. CASE Continues(r, "record")
    <3>1. \A t : Finishing(r, t) => Finishing(r, t)'
      BY <2>4 DEF Finishing, Continues, Route
    <3> QED
      BY <2>1, <2>4, <3>1, TendStep DEF Continues
  <2>5. CASE Continues(r, "rewrite") /\ call'[r].rows = FilesOf(Route(r))
    <3>1. call[r].source \in FilesOf(Route(r))
      BY Fields DEF FilesOf, Route
    <3>2. \A t : Finishing(r, t) => Finishing(r, t)'
      BY <1>1, <2>5, <3>1 DEF Finishing, Continues, Route, At
    <3> QED
      BY <2>1, <2>5, <3>2, TendStep DEF Continues
  <2> QED
    BY <1>4, <2>2, <2>3, <2>4, <2>5, SelectEffect DEF Copies
<1>5. CASE RecordDownload(r)
  <2>1. engine' = engine /\ managed' = managed \cup {call[r].source} /\ Ends(r) /\ At(r, "record")
    BY <1>5, ReturnEffect DEF RecordDownload, SaveDownload, engineVars
  <2>2. \A t : Route(r) = t => call[r].source \in FilesOf(t)
    BY Fields DEF FilesOf, Route
  <2>3. \A t : Finishing(r, t) => RowsOf(t)' # {}
    BY <1>1, <2>1, <2>2 DEF Finishing, RowsOf
  <2> QED
    BY <2>1, <2>3, NoCallFields, TendStep DEF Ends
<1>6. CASE RewriteRow(r)
  <2>1. PICK s \in call[r].rows : s \in Source /\ Drops(r, s) /\ managed' = managed \cup {s}
    BY <1>6, RewriteEffect
  <2>2. engine' = engine /\ At(r, "rewrite")
    BY <1>6 DEF RewriteRow, engineVars
  <2>3. \A t : Finishing(r, t) => s \in RowsOf(t)'
    BY <1>1, <2>1, <2>2 DEF Finishing, RowsOf, At
  <2> QED
    BY <2>1, <2>2, <2>3, TendStep DEF Drops, Continues, At
<1> QED
  BY <1>2, <1>3, <1>4, <1>5, <1>6

\* The steps of a removal: the rows it deletes are of a torrent that is gone.
LEMMA RemoveTends ==
  ASSUME TypeOK, NEW r \in Request, Tending(r), EngineRemove(r) \/ ListForget(r) \/ DeleteRow(r)
  PROVE  Others(r) /\ Tending(r)'
<1> PICK v : v = call[r].victim
  OBVIOUS
<1>1. \A t : FilesOf(t)' = FilesOf(t)
  BY DEF FilesOf
<1>2. \A t : ~Finishing(r, t)
  BY DEF EngineRemove, ListForget, DeleteRow, Finishing, At
<1>3. CASE EngineRemove(r)
  <2>1. engine' = engine \ {v} /\ managed' = managed /\ Continues(r, "forget")
    BY <1>3, GotoEffect DEF EngineRemove, rowVars
  <2>2. \A t : RowsOf(t)' = RowsOf(t)
    BY <1>1, <2>1 DEF RowsOf
  <2> QED
    BY <1>2, <2>1, <2>2 DEF Tending, Continues, At
<1>4. CASE ListForget(r)
  <2>1. /\ engine' = engine /\ managed' = managed /\ At(r, "forget")
        /\ Continues(r, "delete") /\ Copies(r, RowsOf(v), call[r].done)
    BY <1>4, ForgetEffect DEF ListForget, rowVars, engineVars
  <2>2. (\A t : RowsOf(t)' = RowsOf(t)) /\ RowsOf(v) \subseteq FilesOf(v)'
    BY <1>1, <2>1 DEF RowsOf
  <2> QED
    BY <1>2, <2>1, <2>2 DEF Tending, Continues, Copies, At
<1>5. CASE DeleteRow(r)
  <2>1. PICK s \in call[r].rows :
          s \in Source /\ managed' = managed \ {s} /\ (IF s \in managed THEN Drops(r, s) ELSE Ends(r))
    BY <1>5, DeleteEffect
  <2>2. engine' = engine /\ At(r, "delete")
    BY <1>5 DEF DeleteRow, engineVars
  <2>3. v \notin engine /\ call[r].rows \subseteq FilesOf(v)
    BY <2>2 DEF Tending, At
  <2>4. \A t \in engine : RowsOf(t)' = RowsOf(t)
    BY <1>1, <2>1, <2>3 DEF RowsOf, FilesOf
  <2>5. CASE Drops(r, s)
    BY <1>1, <1>2, <2>2, <2>3, <2>4, <2>5 DEF Tending, Drops, Continues, Copies, At
  <2>6. CASE Ends(r)
    BY <1>2, <2>2, <2>4, <2>6, NoCallFields DEF Tending, Ends, At
  <2> QED
    BY <2>1, <2>5, <2>6 DEF Drops, Continues, Ends
<1> QED
  BY <1>3, <1>4, <1>5

LEMMA OwnTends ==
  ASSUME TypeOK, NEW r \in Request, Tending(r), Start(r) \/ Step(r) \/ Release(r)
  PROVE  Others(r) /\ Tending(r)'
<1>1. ASSUME call[r].pc \notin {"files", "apply", "record"}, ~At(r, "rewrite") \/ call[r].rows = {}
      PROVE  \A t : ~Finishing(r, t)
  BY <1>1 DEF Finishing
<1>2. CASE SetLease(r) \/ Inspect(r) \/ SaveManaged(r) \/ FindDownload(r) \/ AdoptSibling(r) \/ SaveAdopted(r)
           \/ FindSeason(r) \/ SurveyRows(r) \/ SampleRoute(r) \/ Choose(r) \/ Forgotten(r)
           \/ RefreshRow(r) \/ ListRoute(r) \/ Written(r) \/ Release(r)
  <2>1. \A t : ~Finishing(r, t)
    BY <1>1, <1>2 DEF SetLease, Inspect, SaveManaged, FindDownload, AdoptSibling, SaveAdopted, FindSeason, SurveyRows,
         SampleRoute, Choose, Forgotten, RefreshRow, ListRoute, Written, Release, At
  <2> QED
    BY <1>2, <2>1, MoveTends
<1> QED
  BY <1>2, StartTends, FinishTends, RemoveTends DEF Step

LEMMA NextTends == ASSUME TypeOK, OrphanInv, [Next]_vars PROVE OrphanInv'
<1> SUFFICES ASSUME NEW r \in Request, Lone(r, {"stream"})'
             PROVE  GuestsOf(r)' /\ Tending(r)'
  BY DEF OrphanInv
<1>1. load' = load /\ Lone(r, {"stream"}) /\ load.faults = {}
  BY LoadSame, LoneSame DEF Lone
<1>2. GuestsOf(r) /\ Tending(r)
  BY <1>1 DEF OrphanInv
<1>3. CASE Start(r) \/ Step(r) \/ Release(r)
  <2>1. Others(r) /\ Tending(r)'
    BY <1>2, <1>3, OwnTends
  <2> QED
    BY <1>1, <1>2, <2>1, GuestSame DEF GuestsOf, Others
<1>4. ASSUME NEW q \in Request \ {r}, Start(q) \/ Step(q) \/ Release(q) PROVE GuestsOf(r)' /\ Tending(r)'
  <2>1. May(q) \subseteq {"stream", "pause", "resume"} /\ Guest(q)
    BY <1>1, <1>2 DEF Lone, GuestsOf
  <2>2. Others(q) /\ Guest(q)' /\ engine' = engine /\ managed \subseteq managed'
    BY <1>1, <1>4, <2>1, GuestActs, GuestStays
  <2>3. Tending(r)'
    BY <1>2, <2>2, GuestTends DEF Others
  <2> QED
    BY <1>1, <1>2, <2>2, <2>3, GuestSame DEF GuestsOf, Others
<1>5. CASE UNCHANGED <<managed, engine, call>>
  BY <1>1, <1>2, <1>5, GuestSame, GuestTends DEF GuestsOf
<1>6. ~(\E q \in Request : Fail(q)) /\ ~(\E t \in Torrent : Vanish(t)) /\ ~Crash
  BY <1>1 DEF Fail, Vanish, Crash
<1> QED
  BY <1>3, <1>4, <1>5, <1>6 DEF Next, FinishFile, vars, rowVars

LEMMA InitTends == Init => OrphanInv
<1> SUFFICES ASSUME Init, NEW r \in Request PROVE GuestsOf(r) /\ Tending(r)
  BY DEF OrphanInv
<1>1. \A q \in Request : At(q, "idle")
  BY NoCallFields DEF Init, At
<1>2. \A t \in engine : RowsOf(t) # {}
  <2>1. managed \subseteq Source
    BY InitType DEF TypeOK
  <2> QED
    BY <2>1 DEF Init, RowsOf, FilesOf
<1> QED
  BY <1>1, <1>2 DEF GuestsOf, Guest, Tending, At

\* A call that adds a torrent and runs to its end leaves it a row, whatever it
\* evicts on the way and whoever streams meanwhile.
THEOREM TorrentsHaveRows == Spec => []NoOrphanTorrent
<1>1. Init => TypeOK /\ OrphanInv
  BY InitType, InitTends
<1>2. TypeOK /\ OrphanInv /\ [Next]_vars => OrphanInv'
  BY NextTends
<1>3. TypeOK /\ OrphanInv => NoOrphanTorrent
  <2> SUFFICES ASSUME OrphanInv, Alone({"stream"}), Quiescent, NEW t \in engine PROVE RowsOf(t) # {}
    BY DEF NoOrphanTorrent
  <2>1. PICK r \in Request : Lone(r, {"stream"})
    BY DEF Alone, Lone
  <2>2. ~Finishing(r, t)
    BY DEF Quiescent, InFlight, Finishing, At
  <2> QED
    BY <2>1, <2>2 DEF OrphanInv, Tending
<1> QED
  BY <1>1, <1>2, <1>3, TypeCorrect, PTL DEF Spec

-----------------------------------------------------------------------------
(* One goroutine alone, whatever fails.  CompleteHasData is not inductive: a *)
(* torrent that is added again brings its rows in front of data that is not  *)
(* there, and a call may hold a stale copy of the progress.  DataInv says    *)
(* that nothing of the kind is left when a call gets to adding a torrent.    *)

Sole(r) == \A q \in Request \ {r} : May(q) = {}

\* Each of these files has its data, as far as the engine knows its torrent.
Backed(S) == \A s \in S : TorrentOf[s] \in engine => s \in onDisk

MissPC == {"survey", "sample", "evict", "forget", "delete", "add"}

Fresh(r) ==
    /\ call[r].pc \in {"prepare", "adopt", "season"} \cup MissPC => call[r].done = {}
    /\ At(r, "adopt") => call[r].op = "prepare"
    /\ At(r, "season") => call[r].op = "season"
    /\ At(r, "add") => call[r].op \in {"prepare", "season"}
    /\ call[r].pc \in {"survey", "sample"} => call[r].op \in {"prepare", "season", "retain"}
    /\ call[r].pc \in {"evict", "forget", "delete"} =>
         call[r].op \in {"prepare", "season", "retain", "remove", "retry"}

\* A call that looked for the rows of its torrent before it adds it found none.
Missed(r) ==
    call[r].op \in {"prepare", "season"} /\ call[r].pc \in MissPC => RowsOf(Route(r)) = {}

Sound(r) ==
    /\ complete \subseteq managed
    /\ Backed(complete) /\ Backed(call[r].done)
    /\ Fresh(r) /\ Missed(r)

DataInv ==
    \A r \in Request : Sole(r) => Sound(r) /\ \A q \in Request \ {r} : At(q, "idle")

LEMMA SoundKept ==
  ASSUME NEW r \in Request, Sound(r), engine' \subseteq engine,
         \A s \in onDisk : TorrentOf[s] \in engine' => s \in onDisk',
         complete' \subseteq managed',
         \A s \in complete' : TorrentOf[s] \in engine' => s \in complete \cup call[r].done \cup onDisk,
         call'[r].done \subseteq complete \cup call[r].done \cup onDisk,
         Fresh(r)', Missed(r)'
  PROVE  Sound(r)'
<1>1. \A s \in complete \cup call[r].done \cup onDisk : TorrentOf[s] \in engine' => s \in onDisk'
  BY DEF Sound, Backed
<1>2. Backed(complete)' /\ Backed(call[r].done)'
  BY <1>1 DEF Backed
<1> QED
  BY <1>2 DEF Sound

LEMMA MissedKept ==
  ASSUME NEW r \in Request, Missed(r), Continues(r, call'[r].pc), managed' \subseteq managed,
         call'[r].pc \in MissPC => call[r].pc \in MissPC
  PROVE  Missed(r)'
<1>1. Route(r)' = Route(r) /\ \A t : RowsOf(t)' \subseteq RowsOf(t)
  BY DEF Continues, Route, RowsOf, FilesOf
<1>2. ASSUME Route(r)' = Route(r) PROVE RowsOf(Route(r))' \subseteq RowsOf(Route(r))
  BY <1>2 DEF RowsOf, FilesOf
<1> QED
  BY <1>1, <1>2 DEF Missed, Continues

LEMMA EndSound ==
  ASSUME NEW r \in Request, call'[r] = NoCall
  PROVE  Fresh(r)' /\ Missed(r)' /\ call'[r].done = {}
BY NoCallFields DEF Fresh, Missed, MissPC, At

LEMMA StartSound ==
  ASSUME TypeOK, NEW r \in Request, Sound(r), Start(r)
  PROVE  Others(r) /\ Sound(r)'
<1>1. UNCHANGED <<managed, complete, engine, onDisk>>
  BY DEF Start, StartRetention, ListDownloads, Acquire, StartPrepare, StartSeason, Remove, Toggle,
         rowVars, engineVars
<1>2. ASSUME Others(r), call'[r].done \subseteq complete, Fresh(r)', Missed(r)' PROVE Others(r) /\ Sound(r)'
  BY <1>1, <1>2, SoundKept DEF Sound
<1>3. ASSUME NEW s, \/ Begins(r, "retain", "survey", s) \/ Begins(r, "prepare", "prepare", s)
                    \/ Begins(r, "season", "season", s) \/ Begins(r, "remove", "evict", s)
                    \/ Begins(r, "retry", "forget", s) \/ \E op : Begins(r, op, "list", s),
             Copies(r, {}, {})
      PROVE  Others(r) /\ Sound(r)'
  BY <1>2, <1>3 DEF Begins, Copies, Fresh, Missed, MissPC, At
<1>4. ASSUME NEW s, Acquire(r, s) PROVE Others(r) /\ Sound(r)'
  <2>1. Others(r) /\ call'[r].pc \in {"lease", "inspect"} /\ call'[r].done \subseteq complete
    BY <1>4, AcquireEffect DEF Begins, Copies
  <2> QED
    BY <1>2, <2>1 DEF Fresh, Missed, MissPC, At
<1>5. CASE ListDownloads(r)
  <2>1. Others(r) /\ call'[r].pc = "refresh" /\ call'[r].done \subseteq complete
    BY <1>5, PollEffect DEF Copies
  <2> QED
    BY <1>2, <2>1 DEF Fresh, Missed, MissPC, At
<1>6. ASSUME NEW s, StartRetention(r) \/ StartPrepare(r, s) \/ StartSeason(r, s) \/ Remove(r, s)
      PROVE  Others(r) /\ Sound(r)'
  BY <1>3, <1>6, BeginEffect, RemoveEffect DEF StartRetention, StartPrepare, StartSeason
<1>7. ASSUME NEW s, NEW op, Toggle(r, op, s) PROVE Others(r) /\ Sound(r)'
  BY <1>3, <1>7, BeginEffect DEF Toggle
<1> QED
  BY <1>4, <1>5, <1>6, <1>7 DEF Start

\* The steps that leave the rows and the engine's data alone.
LEMMA MoveSound ==
  ASSUME TypeOK, NEW r \in Request, Sound(r),
         \/ SetLease(r) \/ Inspect(r) \/ SelectFiles(r) \/ FindDownload(r) \/ AdoptSibling(r) \/ FindSeason(r)
         \/ ListFiles(r) \/ SurveyRows(r) \/ SampleRoute(r) \/ Choose(r) \/ Forgotten(r) \/ ListRoute(r)
         \/ Written(r) \/ Release(r) \/ ListForget(r)
  PROVE  Others(r) /\ Sound(r)'
<1>1. UNCHANGED <<managed, complete, engine, onDisk>>
  BY DEF SetLease, Inspect, SelectFiles, FindDownload, AdoptSibling, FindSeason, ListFiles, SurveyRows, SampleRoute,
         Choose, Forgotten, ListRoute, Written, Release, ListForget, rowVars, engineVars
<1>2. ASSUME Others(r), call'[r].done \subseteq complete \cup call[r].done \cup onDisk, Fresh(r)', Missed(r)'
      PROVE  Others(r) /\ Sound(r)'
  BY <1>1, <1>2, SoundKept DEF Sound
<1>3. ASSUME Ends(r) PROVE Others(r) /\ Sound(r)'
  BY <1>2, <1>3, EndSound DEF Ends
<1>4. ASSUME NEW pc, Continues(r, pc), call'[r].done \subseteq complete \cup call[r].done \cup onDisk,
             pc \notin {"prepare", "adopt", "season"} \cup MissPC
      PROVE  Others(r) /\ Sound(r)'
  BY <1>2, <1>4 DEF Continues, Fresh, Missed, MissPC, At
<1>5. Fresh(r) /\ Missed(r)
  BY DEF Sound
<1>6. CASE SetLease(r) \/ Written(r) \/ Release(r)
  <2>1. Ends(r) \/ (Continues(r, "streaming") /\ Copies(r, call[r].rows, call[r].done))
    BY <1>6, GotoEffect, ReturnEffect DEF SetLease, Written, Release
  <2> QED
    BY <1>3, <1>4, <2>1 DEF Copies, MissPC
<1>7. CASE Inspect(r) \/ SelectFiles(r) \/ ListFiles(r) \/ ListRoute(r)
  <2>1. \/ Ends(r)
        \/ \E pc \in {"lease", "select", "save", "rewrite", "record", "apply"} :
             Continues(r, pc) /\ call'[r].done \subseteq complete \cup call[r].done \cup onDisk
    BY <1>7, InspectEffect, SelectEffect, FilesEffect, RouteEffect DEF Copies
  <2> QED
    BY <1>3, <1>4, <2>1 DEF MissPC
<1>8. CASE FindDownload(r)
  <2>1. At(r, "prepare") /\ call[r].done = {}
    BY <1>5, <1>8 DEF FindDownload, Fresh, At
  <2>2. \/ Ends(r)
        \/ /\ Others(r) /\ call'[r].op = "prepare" /\ call'[r].done = {} /\ call'[r].pc = "adopt"
        \/ /\ Others(r) /\ call'[r].pc = "inspect" /\ call'[r].done \subseteq complete
    BY <1>8, <2>1, FindEffect
  <2> QED
    BY <1>2, <1>3, <2>2 DEF Fresh, Missed, MissPC, At
<1>9. ASSUME At(r, "adopt") \/ At(r, "season"), RowsOf(Route(r)) = {}, Continues(r, AdmissionPC),
             Copies(r, call[r].rows, call[r].done)
      PROVE  Others(r) /\ Sound(r)'
  <2>1. call[r].op \in {"prepare", "season"} /\ call[r].done = {}
    BY <1>5, <1>9 DEF Fresh, At
  <2>2. PICK t : t = Route(r)
    OBVIOUS
  <2>3. Route(r)' = t /\ RowsOf(t)' = {}
    BY <1>1, <1>9, <2>2 DEF Continues, Route, RowsOf, FilesOf
  <2>4. Missed(r)'
    BY <2>3 DEF Missed
  <2>5. Fresh(r)'
    BY <1>9, <2>1 DEF Fresh, Continues, Copies, AdmissionPC, At
  <2> QED
    BY <1>2, <1>9, <2>1, <2>4, <2>5 DEF Continues, Copies
<1>10. CASE AdoptSibling(r)
  <2>1. At(r, "adopt")
    BY <1>10 DEF AdoptSibling
  <2> QED
    BY <1>3, <1>4, <1>9, <1>10, <2>1, AdoptEffect DEF Copies, MissPC
<1>11. CASE FindSeason(r)
  <2>1. At(r, "season")
    BY <1>11 DEF FindSeason
  <2>2. CASE RowsOf(Route(r)) = {}
    BY <1>9, <1>11, <2>1, <2>2, GotoEffect DEF FindSeason
  <2>3. CASE RowsOf(Route(r)) # {}
    <3>1. Continues(r, "files") /\ Copies(r, call[r].rows, call[r].done)
      BY <1>11, <2>3, GotoEffect DEF FindSeason
    <3> QED
      BY <1>4, <3>1 DEF Copies, MissPC
  <2> QED
    BY <2>2, <2>3
<1>12. CASE SurveyRows(r) \/ SampleRoute(r) \/ Choose(r)
  <2>0. At(r, "survey") \/ At(r, "sample")
    BY <1>12, SurveyEffect, SampleEffect, ChooseEffect
  <2>1. call[r].pc \in MissPC /\ call[r].done = {} /\ call[r].op \in {"prepare", "season", "retain"}
    BY <1>5, <2>0 DEF Fresh, At, MissPC
  <2>2. PICK t : t = Route(r)
    OBVIOUS
  <2>3. ASSUME Others(r), call'[r].op = call[r].op, call'[r].source = call[r].source, call'[r].done = {},
               call'[r].pc \in {"sample", "evict"} \/ (call'[r].pc = "add" /\ call[r].op # "retain")
        PROVE  Others(r) /\ Sound(r)'
    <3>1. Route(r)' = t /\ RowsOf(t)' = RowsOf(t)
      BY <1>1, <2>2, <2>3 DEF Route, RowsOf, FilesOf
    <3>2. Missed(r)'
      BY <1>5, <2>1, <2>2, <2>3, <3>1 DEF Missed, MissPC, At
    <3>3. Fresh(r)'
      BY <2>1, <2>3 DEF Fresh, At
    <3> QED
      BY <1>2, <2>3, <3>2, <3>3
  <2> QED
    BY <1>3, <1>12, <2>1, <2>3, SurveyEffect, SampleEffect, ChooseEffect DEF Continues, Copies
<1>13. CASE Forgotten(r)
  <2>1. /\ At(r, "delete") /\ call[r].done = {}
        /\ call[r].op \in {"prepare", "season", "retain", "remove", "retry"}
    BY <1>5, <1>13 DEF Forgotten, Fresh, At, MissPC
  <2>2. \/ Ends(r)
        \/ Continues(r, "prepare") /\ Copies(r, call[r].rows, {})
        \/ /\ Continues(r, "survey") /\ Copies(r, call[r].rows, {})
           /\ call[r].op \in {"prepare", "season", "retain"}
    BY <1>13, <2>1, GotoEffect, ReturnEffect DEF Forgotten
  <2>3. CASE Continues(r, "prepare") /\ Copies(r, call[r].rows, {})
    BY <1>2, <2>3 DEF Continues, Copies, Fresh, Missed, MissPC, At
  <2>4. CASE /\ Continues(r, "survey") /\ Copies(r, call[r].rows, {})
             /\ call[r].op \in {"prepare", "season", "retain"}
    <3>1. Missed(r)'
      BY <1>1, <1>5, <2>1, <2>4, MissedKept DEF Continues, MissPC, At
    <3>2. Fresh(r)'
      BY <2>4 DEF Fresh, Continues, Copies, At
    <3> QED
      BY <1>2, <2>4, <3>1, <3>2 DEF Continues, Copies
  <2> QED
    BY <1>3, <2>2, <2>3, <2>4
<1>14. CASE ListForget(r)
  <2>1. At(r, "forget") /\ Continues(r, "delete") /\ call'[r].done = call[r].done
    BY <1>14, ForgetEffect DEF ListForget, Copies
  <2>2. Missed(r)'
    BY <1>1, <1>5, <2>1, MissedKept DEF Continues, MissPC, At
  <2>3. Fresh(r)'
    BY <1>5, <2>1 DEF Fresh, Continues, MissPC, At
  <2> QED
    BY <1>2, <2>1, <2>2, <2>3 DEF Continues
<1> QED
  BY <1>6, <1>7, <1>8, <1>10, <1>11, <1>12, <1>13, <1>14

\* The steps that write a row: what they call complete is backed.
LEMMA SaveSound ==
  ASSUME TypeOK, NEW r \in Request, Sound(r),
         SaveManaged(r) \/ SaveAdopted(r) \/ RecordDownload(r) \/ RefreshRow(r) \/ RewriteRow(r)
  PROVE  Others(r) /\ Sound(r)'
<1>1. UNCHANGED <<engine, onDisk>>
  BY DEF SaveManaged, SaveAdopted, RecordDownload, RefreshRow, RewriteRow, engineVars
<1>2. ASSUME NEW s, managed' = managed \cup {s}, complete' \subseteq complete \cup {s},
             s \in complete' /\ TorrentOf[s] \in engine => s \in call[r].done \cup onDisk,
             Ends(r) \/ (\E pc : /\ Continues(r, pc) /\ call'[r].done = call[r].done
                                 /\ pc \notin {"prepare", "adopt", "season"} \cup MissPC)
      PROVE  Others(r) /\ Sound(r)'
  <2>1. complete \subseteq managed
    BY DEF Sound
  <2>2. complete' \subseteq managed' /\ \A u \in complete' : u \in complete \/ u = s
    BY <1>2, <2>1
  <2>3. Others(r) /\ Fresh(r)' /\ Missed(r)' /\ call'[r].done \subseteq call[r].done
    <3>1. CASE Ends(r)
      BY <3>1, EndSound DEF Ends
    <3>2. CASE ~Ends(r)
      BY <1>2, <3>2 DEF Continues, Fresh, Missed, MissPC, At
    <3> QED
      BY <3>1, <3>2
  <2> QED
    BY <1>1, <1>2, <2>2, <2>3, SoundKept
<1>3. CASE SaveManaged(r) \/ SaveAdopted(r) \/ RecordDownload(r)
  <2>1. PICK s : /\ managed' = managed \cup {s} /\ complete' \subseteq complete \cup {s}
                 /\ s \in complete' => s \in call[r].done
    BY <1>3 DEF SaveManaged, SaveAdopted, RecordDownload, SaveDownload, With
  <2>2. Ends(r) \/ \E pc \in {"lease", "inspect"} : Continues(r, pc) /\ call'[r].done = call[r].done
    BY <1>3, GotoEffect, ReturnEffect DEF SaveManaged, SaveAdopted, RecordDownload, Copies
  <2> QED
    BY <1>2, <2>1, <2>2 DEF MissPC
<1>4. CASE RefreshRow(r)
  <2>1. At(r, "refresh")
    BY <1>4 DEF RefreshRow
  <2>2. PICK s : /\ Drops(r, s) /\ managed' = managed \cup {s} /\ complete' \subseteq complete \cup {s}
                 /\ s \in complete' => IF TorrentOf[s] \in engine THEN s \in onDisk ELSE s \in call[r].done
    BY <1>4, RefreshEffect DEF With
  <2>3. Continues(r, "refresh") /\ call'[r].done = call[r].done
    BY <2>1, <2>2 DEF Drops, Copies, At
  <2> QED
    BY <1>2, <2>2, <2>3 DEF MissPC
<1>5. CASE RewriteRow(r)
  <2>1. At(r, "rewrite")
    BY <1>5 DEF RewriteRow
  <2>2. PICK s : /\ Drops(r, s) /\ managed' = managed \cup {s} /\ complete' \subseteq complete \cup {s}
                 /\ s \in complete' => s \in call[r].done
    BY <1>5, RewriteEffect DEF With
  <2>3. Continues(r, "rewrite") /\ call'[r].done = call[r].done
    BY <2>1, <2>2 DEF Drops, Copies, At
  <2> QED
    BY <1>2, <2>2, <2>3 DEF MissPC
<1> QED
  BY <1>3, <1>4, <1>5

LEMMA RemoveSound ==
  ASSUME TypeOK, NEW r \in Request, Sound(r), EngineRemove(r) \/ DeleteRow(r)
  PROVE  Others(r) /\ Sound(r)'
<1>1. Fresh(r) /\ Missed(r)
  BY DEF Sound
<1>2. CASE EngineRemove(r)
  <2>1. /\ At(r, "evict") /\ Continues(r, "forget") /\ call'[r].done = call[r].done
        /\ UNCHANGED <<managed, complete>>
    BY <1>2, GotoEffect DEF EngineRemove, Copies, rowVars
  <2>2. engine' \subseteq engine /\ \A s \in onDisk : TorrentOf[s] \in engine' => s \in onDisk'
    BY <1>2 DEF EngineRemove, FilesOf
  <2>3. Missed(r)'
    BY <1>1, <2>1, MissedKept DEF Continues, MissPC, At
  <2>4. Fresh(r)'
    BY <1>1, <2>1 DEF Fresh, Continues, MissPC, At
  <2> QED
    BY <2>1, <2>2, <2>3, <2>4, SoundKept DEF Sound, Continues
<1>3. CASE DeleteRow(r)
  <2>1. PICK s : /\ managed' = managed \ {s} /\ complete' = complete \ {s}
                 /\ IF s \in managed THEN Drops(r, s) ELSE Ends(r)
    BY <1>3, DeleteEffect
  <2>2. At(r, "delete") /\ UNCHANGED <<engine, onDisk>>
    BY <1>3 DEF DeleteRow, engineVars
  <2>3. complete' \subseteq managed' /\ complete' \subseteq complete
    BY <2>1 DEF Sound
  <2>4. Others(r) /\ Fresh(r)' /\ Missed(r)' /\ call'[r].done \subseteq call[r].done
    <3>1. CASE Ends(r)
      BY <3>1, EndSound DEF Ends
    <3>2. CASE Drops(r, s)
      <4>1. Continues(r, "delete") /\ call'[r].done = call[r].done
        BY <2>2, <3>2 DEF Drops, Copies, At
      <4>2. Missed(r)'
        BY <1>1, <2>1, <2>2, <4>1, MissedKept DEF Continues, MissPC, At
      <4> QED
        BY <1>1, <2>2, <4>1, <4>2 DEF Fresh, Continues, MissPC, At
    <3> QED
      BY <2>1, <3>1, <3>2
  <2> QED
    BY <2>2, <2>3, <2>4, SoundKept
<1> QED
  BY <1>2, <1>3

\* A torrent that comes back finds no row and no copy of one.
LEMMA AddSound ==
  ASSUME TypeOK, NEW r \in Request, Sound(r), AddTorrent(r)
  PROVE  Others(r) /\ Sound(r)'
<1>1. /\ At(r, "add") /\ Continues(r, "files") /\ call'[r].done = call[r].done
      /\ UNCHANGED <<managed, complete, onDisk>> /\ engine' = engine \cup {Route(r)}
  BY GotoEffect DEF AddTorrent, Copies, rowVars
<1>2. call[r].done = {} /\ RowsOf(Route(r)) = {}
  BY <1>1 DEF Sound, Fresh, Missed, MissPC, At
<1>3. Backed(complete)'
  <2>1. \A s \in complete : s \in Source /\ TorrentOf[s] # Route(r)
    BY <1>2 DEF TypeOK, Sound, RowsOf, FilesOf
  <2> QED
    BY <1>1, <2>1 DEF Sound, Backed
<1>4. Fresh(r)' /\ Missed(r)' /\ Backed(call[r].done)'
  BY <1>1, <1>2 DEF Continues, Fresh, Missed, Backed, MissPC, At
<1> QED
  BY <1>1, <1>3, <1>4 DEF Sound, Continues

LEMMA OwnSound ==
  ASSUME TypeOK, NEW r \in Request, Sound(r), Start(r) \/ Step(r) \/ Release(r)
  PROVE  Others(r) /\ Sound(r)'
BY StartSound, MoveSound, SaveSound, RemoveSound, AddSound DEF Step

\* A goroutine that is asked nothing does nothing.
LEMMA IdleStays ==
  ASSUME NEW q \in Request, May(q) = {}, At(q, "idle")
  PROVE  ~Start(q) /\ ~Step(q) /\ ~Release(q) /\ ~Fail(q)
<1>1. ~Start(q)
  BY DEF Start, StartRetention, ListDownloads, Acquire, StartPrepare, StartSeason, Remove, Toggle, Begin
<1>2. ~SetLease(q) /\ ~Inspect(q) /\ ~SelectFiles(q) /\ ~SaveManaged(q) /\ ~FindDownload(q) /\ ~AdoptSibling(q)
      /\ ~SaveAdopted(q) /\ ~FindSeason(q) /\ ~AddTorrent(q) /\ ~ListFiles(q) /\ ~RecordDownload(q)
  BY DEF SetLease, Inspect, SelectFiles, SaveManaged, FindDownload, AdoptSibling, SaveAdopted, FindSeason,
         AddTorrent, ListFiles, RecordDownload, At
<1>3. ~SurveyRows(q) /\ ~SampleRoute(q) /\ ~Choose(q) /\ ~EngineRemove(q) /\ ~ListForget(q) /\ ~DeleteRow(q) /\ ~Forgotten(q) /\ ~RefreshRow(q)
      /\ ~ListRoute(q) /\ ~RewriteRow(q) /\ ~Written(q) /\ ~Release(q) /\ ~Fail(q)
  BY DEF SurveyRows, SampleRoute, Choose, EngineRemove, ListForget, DeleteRow, Forgotten, RefreshRow, ListRoute, RewriteRow, Written,
         Release, Fail, At
<1> QED
  BY <1>1, <1>2, <1>3 DEF Step

LEMMA NextSound == ASSUME TypeOK, DataInv, [Next]_vars PROVE DataInv'
<1> SUFFICES ASSUME NEW r \in Request, Sole(r)'
             PROVE  Sound(r)' /\ \A q \in Request \ {r} : At(q, "idle")'
  BY DEF DataInv
<1>1. Sole(r)
  BY LoadSame DEF Sole, May
<1>2. Sound(r) /\ \A q \in Request \ {r} : At(q, "idle")
  BY <1>1 DEF DataInv
<1>3. CASE Start(r) \/ Step(r) \/ Release(r)
  BY <1>2, <1>3, OwnSound DEF Others, At
<1>4. ASSUME UNCHANGED <<managed, complete>>, engine' \subseteq engine, onDisk \subseteq onDisk',
             \A q \in Request : call'[q] = call[q] \/ call'[q] = NoCall
      PROVE  Sound(r)' /\ \A q \in Request \ {r} : At(q, "idle")'
  <2>1. \A q \in Request \ {r} : At(q, "idle")'
    BY <1>2, <1>4, NoCallFields DEF At
  <2>2. Fresh(r)' /\ Missed(r)' /\ call'[r].done \subseteq call[r].done
    <3>1. CASE call'[r] = NoCall
      BY <3>1, EndSound
    <3>2. CASE call'[r] = call[r]
      <4>1. Missed(r)'
        BY <1>2, <1>4, <3>2 DEF Sound, Missed, Route, RowsOf, FilesOf
      <4> QED
        BY <1>2, <3>2, <4>1 DEF Sound, Fresh, At
    <3> QED
      BY <1>4, <3>1, <3>2
  <2> QED
    BY <1>2, <1>4, <2>1, <2>2, SoundKept DEF Sound
<1>5. CASE Fail(r)
  BY <1>4, <1>5, ReturnEffect DEF Fail, Ends, Others, rowVars, engineVars
<1>6. \A q \in Request \ {r} : ~Start(q) /\ ~Step(q) /\ ~Release(q) /\ ~Fail(q)
  BY <1>1, <1>2, IdleStays DEF Sole
<1>7. CASE Crash \/ (\E s \in Source : FinishFile(s)) \/ (\E t \in Torrent : Vanish(t)) \/ UNCHANGED vars
  BY <1>4, <1>7 DEF Crash, FinishFile, Vanish, vars, rowVars, engineVars
<1> QED
  BY <1>3, <1>5, <1>6, <1>7 DEF Next

LEMMA InitSound == Init => DataInv
<1> SUFFICES ASSUME Init, NEW r \in Request PROVE Sound(r) /\ \A q \in Request : At(q, "idle")
  BY DEF DataInv
<1>1. \A q \in Request : call[q] = NoCall
  BY DEF Init
<1>2. Fresh(r) /\ Missed(r) /\ call[r].done = {} /\ \A q \in Request : At(q, "idle")
  BY <1>1, NoCallFields DEF Fresh, Missed, MissPC, At
<1> QED
  BY <1>2 DEF Init, Sound, Backed

\* A row that says complete has its data while the engine knows its torrent,
\* after failures, restarts and retries of the goroutine that writes the rows.
THEOREM CompleteRowsBacked == Spec => []CompleteHasData
<1>1. Init => TypeOK /\ DataInv
  BY InitType, InitSound
<1>2. TypeOK /\ DataInv /\ [Next]_vars => DataInv'
  BY NextSound
<1>3. DataInv => CompleteHasData
  BY DEF DataInv, Sole, Sound, Backed, CompleteHasData
<1> QED
  BY <1>1, <1>2, <1>3, TypeCorrect, PTL DEF Spec

-----------------------------------------------------------------------------
(* One goroutine that adds, next to guests.  SelectionKeepsRows is not       *)
(* inductive: a stream replaces the selection by the rows it listed earlier, *)
(* and a row saved since then is left out.  KeepInv says that the call which *)
(* saved it is then still waiting for the stream mutex to select it itself.  *)

Adds(r) ==
    /\ load.faults = {} /\ Allocation = 0
    /\ \A q \in Request : May(q) \cap {"remove", "retain"} = {}
    /\ \A q \in Request \ {r} :
          /\ May(q) \subseteq {"stream", "pause", "resume"}
          /\ "season" \in May(r) => "stream" \notin May(q)

AdderPC(op) ==
    IF op = "stream" THEN GuestPC("stream")
    ELSE IF op = "poll" THEN {"refresh"}
    ELSE IF op = "prepare" THEN {"prepare", "adopt", "adopted", "inspect", "select", "save",
                                 "add", "files", "apply", "record"}
    ELSE IF op = "season" THEN {"season", "add", "files", "apply", "rewrite"}
    ELSE {"list", "rewrite"}

Adder(r) ==
    \/ At(r, "idle")
    \/ /\ call[r].op \in May(r) \ {"remove", "retain"}
       /\ call[r].pc \in AdderPC(call[r].op)

\* What a call of any goroutine works on exists.
Sourced(q) ==
    /\ call[q].pc \in {"inspect", "select", "save"} => call[q].source \in managed
    /\ call[q].pc \in {"adopted", "files", "apply", "record"} => Route(q) \in engine
    /\ At(q, "refresh") \/ (At(q, "rewrite") /\ call[q].op # "season") => call[q].rows \subseteq managed

\* What the adder selects covers the rows there are and those it is about to save.
Adding(r) ==
    /\ At(r, "select") => RowsOf(Route(r)) \cup {call[r].source} \subseteq call[r].rows
    /\ call[r].op = "prepare" /\ call[r].pc \in {"add", "files", "apply", "record"} => RowsOf(Route(r)) = {}
    /\ call[r].op = "prepare" /\ At(r, "apply") => call[r].source \in call[r].rows
    /\ At(r, "record") => call[r].source \in selected
    /\ call[r].op = "season" /\ At(r, "apply") => FilesOf(Route(r)) \subseteq call[r].rows
    /\ call[r].op = "season" /\ At(r, "rewrite") =>
         \A s \in call[r].rows : TorrentOf[s] \in engine /\ s \in selected \cup onDisk

\* The adder has saved the row of s and has yet to select it.
Awaits(r, s) == call[r].op = "prepare" /\ call[r].pc \in {"inspect", "select"} /\ call[r].source = s

Wanted(r) ==
    \A s \in managed : TorrentOf[s] \in engine /\ (s \in selected \cup onDisk \/ Awaits(r, s))

\* What a guest is about to select leaves out a row only while the adder waits.
Beside(r, q) ==
    At(q, "select") =>
        /\ At(r, "select") => Route(r) # Route(q)
        /\ \A s \in RowsOf(Route(q)) :
              s \in call[q].rows \cup onDisk \/ (At(r, "inspect") /\ Awaits(r, s))

Keeps(r) ==
    /\ Adder(r) /\ Sourced(r) /\ Adding(r) /\ Wanted(r)
    /\ \A q \in Request \ {r} : Guest(q) /\ Sourced(q) /\ Beside(r, q)

KeepInv == \A r \in Request : Adds(r) => Keeps(r)

LEMMA AddsSame == ASSUME load' = load, NEW r PROVE Adds(r)' <=> Adds(r)
BY DEF Adds, May, Allocation

\* Nothing is taken away: what a call works on stays.
LEMMA SourcedKept ==
  ASSUME NEW q \in Request, Sourced(q), call'[q] = call[q], engine \subseteq engine', managed \subseteq managed'
  PROVE  Sourced(q)'
BY DEF Sourced, Route, At

\* A step of the adder next to its guests, but for what it does to the rows
\* they are about to select.
LEMMA AdderStep ==
  ASSUME TypeOK, NEW r \in Request, Keeps(r), Others(r), load' = load,
         engine \subseteq engine', managed \subseteq managed',
         Adder(r)', Sourced(r)', Adding(r)', Wanted(r)', \A q \in Request \ {r} : Beside(r, q)'
  PROVE  Keeps(r)'
<1>1. ASSUME NEW q \in Request \ {r} PROVE Guest(q)' /\ Sourced(q)'
  BY <1>1, GuestSame, SourcedKept DEF Keeps, Others
<1> QED
  BY <1>1 DEF Keeps

\* A step of the adder that saves no new row, selects nothing and does not turn
\* to the stream mutex.
LEMMA QuietAdder ==
  ASSUME TypeOK, NEW r \in Request, Keeps(r), Others(r), load' = load,
         engine \subseteq engine', UNCHANGED <<managed, selected, onDisk>>,
         call[r].pc \notin {"inspect", "select"}, ~At(r, "select")',
         Adder(r)', Sourced(r)', Adding(r)'
  PROVE  Keeps(r)'
<1>1. Wanted(r)'
  BY DEF Keeps, Wanted, Awaits
<1>2. ASSUME NEW q \in Request \ {r} PROVE Beside(r, q)'
  BY <1>2 DEF Keeps, Others, Beside, Awaits, RowsOf, FilesOf, Route, At
<1> QED
  BY <1>1, <1>2, AdderStep

LEMMA AdderEnds ==
  ASSUME TypeOK, NEW r \in Request, Keeps(r), load' = load, Ends(r), UNCHANGED <<managed, engine, selected, onDisk>>,
         call[r].pc \notin {"inspect", "select"}
  PROVE  Keeps(r)'
<1>1. call'[r].op = "none" /\ call'[r].pc = "idle" /\ call'[r].rows = {}
  BY NoCallFields DEF Ends
<1>2. Adder(r)' /\ Sourced(r)' /\ Adding(r)'
  BY <1>1 DEF Adder, Sourced, Adding, At
<1> QED
  BY <1>1, <1>2, QuietAdder DEF Ends, At

\* Where the adder is tells what it does.
LEMMA AdderShape ==
  ASSUME NEW r \in Request, Adds(r), Keeps(r)
  PROVE  /\ call[r].pc \notin {"survey", "sample", "evict", "forget", "delete"}
         /\ call[r].pc \in {"prepare", "adopt", "adopted", "record"} => call[r].op = "prepare"
         /\ At(r, "season") => call[r].op = "season"
         /\ call[r].pc \in {"add", "files", "apply"} => call[r].op \in {"prepare", "season"}
         /\ call[r].pc \in {"inspect", "select", "save"} => call[r].op \in {"prepare", "stream"}
         /\ At(r, "lease") => call[r].op = "stream"
         /\ At(r, "list") => call[r].op \notin {"stream", "poll", "prepare", "season"}
         /\ ~At(r, "idle") => call[r].op \in May(r) \ {"remove", "retain"}
BY DEF Keeps, Adder, AdderPC, GuestPC, At

LEMMA AdderStarts ==
  ASSUME TypeOK, NEW r \in Request, Adds(r), Keeps(r), load' = load, Start(r)
  PROVE  Keeps(r)'
<1>1. UNCHANGED <<managed, engine, selected, onDisk>>
  BY DEF Start, StartRetention, ListDownloads, Acquire, StartPrepare, StartSeason, Remove, Toggle,
         rowVars, engineVars
<1>2. At(r, "idle") /\ May(r)' = May(r)
  <2>1. At(r, "idle")
    BY DEF Start, StartRetention, ListDownloads, Acquire, StartPrepare, StartSeason, Remove, Toggle,
           Begin, At
  <2> QED
    BY <2>1 DEF May
<1>3. May(r) \cap {"remove", "retain"} = {}
  BY DEF Adds
<1>4. ASSUME Others(r), Adder(r)', Sourced(r)', Adding(r)', ~At(r, "select")' PROVE Keeps(r)'
  BY <1>1, <1>2, <1>4, QuietAdder DEF At
<1>5. ASSUME NEW s, NEW op, NEW pc, Begin(r, op, pc, s),
             pc \in {"prepare", "season", "list"}, pc \in AdderPC(op)
      PROVE  Keeps(r)'
  <2>1. Begins(r, op, pc, s) /\ op \in May(r)
    BY <1>5, BeginEffect
  <2>2. Adder(r)'
    BY <1>2, <1>3, <1>5, <2>1 DEF Adder, Begins
  <2>3. Sourced(r)' /\ Adding(r)'
    BY <1>5, <2>1 DEF Sourced, Adding, Begins, At
  <2> QED
    BY <1>4, <1>5, <2>1, <2>2, <2>3 DEF Begins, At
<1>6. ASSUME NEW s, Acquire(r, s) PROVE Keeps(r)'
  <2>1. s \in managed
    BY <1>6 DEF Acquire
  <2>2. PICK pc \in {"lease", "inspect"} : Begins(r, "stream", pc, s) /\ "stream" \in May(r)
    BY <1>6, AcquireEffect
  <2>3. Adder(r)'
    BY <1>2, <2>2 DEF Adder, AdderPC, GuestPC, Begins
  <2>4. Sourced(r)' /\ Adding(r)'
    BY <1>1, <2>1, <2>2 DEF Sourced, Adding, Begins, At
  <2> QED
    BY <1>4, <2>2, <2>3, <2>4 DEF Begins, At
<1>7. CASE ListDownloads(r)
  <2>1. Others(r) /\ call'[r].pc = "refresh" /\ call'[r].op = "poll" /\ call'[r].rows = managed /\ "poll" \in May(r)
    BY <1>7, PollEffect DEF Copies
  <2>2. Adder(r)'
    BY <1>2, <2>1 DEF Adder, AdderPC
  <2>3. Sourced(r)' /\ Adding(r)'
    BY <1>1, <2>1 DEF Sourced, Adding, At
  <2> QED
    BY <1>4, <2>1, <2>2, <2>3 DEF At
<1>8. ASSUME NEW s, StartPrepare(r, s) \/ StartSeason(r, s) PROVE Keeps(r)'
  <2>1. "prepare" \in AdderPC("prepare") /\ "season" \in AdderPC("season")
    BY DEF AdderPC
  <2> QED
    BY <1>5, <1>8, <2>1 DEF StartPrepare, StartSeason
<1>9. ASSUME NEW s, NEW op \in {"pause", "resume", "retry"}, Toggle(r, op, s) PROVE Keeps(r)'
  <2>1. TorrentOf[s] \in engine
    BY <1>9 DEF Toggle, Keeps, Wanted
  <2>2. Begin(r, op, "list", s) /\ "list" \in AdderPC(op)
    BY <1>9, <2>1 DEF Toggle, AdderPC
  <2> QED
    BY <1>5, <2>2
<1>10. ~StartRetention(r) /\ \A s : ~Remove(r, s)
  BY <1>3 DEF StartRetention, Remove, Begin
<1> QED
  BY <1>6, <1>7, <1>8, <1>9, <1>10 DEF Start

\* The steps of the adder that leave rows and selection alone.
LEMMA AdderMoves ==
  ASSUME TypeOK, NEW r \in Request, Adds(r), Keeps(r), load' = load,
         \/ SetLease(r) \/ FindDownload(r) \/ AdoptSibling(r) \/ FindSeason(r) \/ AddTorrent(r) \/ ListFiles(r)
         \/ ListRoute(r) \/ Written(r) \/ Release(r)
  PROVE  Keeps(r)'
<1>1. engine \subseteq engine' /\ UNCHANGED <<managed, selected, onDisk>>
  BY DEF SetLease, FindDownload, AdoptSibling, FindSeason, AddTorrent, ListFiles,
         ListRoute, Written, Release, rowVars, engineVars
<1>2. call[r].pc \notin {"inspect", "select"} /\ May(r)' = May(r)
  BY DEF SetLease, FindDownload, AdoptSibling, FindSeason, AddTorrent, ListFiles,
         ListRoute, Written, Release, At, May
<1>3. ASSUME Ends(r), engine' = engine PROVE Keeps(r)'
  BY <1>1, <1>2, <1>3, AdderEnds
<1>4. ASSUME Others(r), Adder(r)', Sourced(r)', Adding(r)', ~At(r, "select")' PROVE Keeps(r)'
  BY <1>1, <1>2, <1>4, QuietAdder
<1>5. ASSUME NEW pc, Continues(r, pc), ~At(r, "idle"), pc \in AdderPC(call[r].op), pc # "select",
             Sourced(r)', Adding(r)'
      PROVE  Keeps(r)'
  <2>1. Adder(r)'
    BY <1>2, <1>5, AdderShape DEF Adder, Continues
  <2> QED
    BY <1>4, <1>5, <2>1 DEF Continues, At
<1>6. PICK t : t = Route(r)
  OBVIOUS
<1>7. RowsOf(t)' = RowsOf(t) /\ FilesOf(t)' = FilesOf(t) /\ (call'[r].source = call[r].source => Route(r)' = t)
  BY <1>1, <1>6 DEF RowsOf, FilesOf, Route
<1>8. CASE SetLease(r) \/ Written(r) \/ Release(r)
  <2>1. Ends(r) \/ (At(r, "lease") /\ Continues(r, "streaming"))
    BY <1>8, GotoEffect, ReturnEffect DEF SetLease, Written, Release
  <2>2. engine' = engine
    BY <1>8 DEF SetLease, Written, Release, engineVars
  <2>3. CASE At(r, "lease") /\ Continues(r, "streaming")
    <3>1. "streaming" \in AdderPC(call[r].op)
      BY <2>3, AdderShape DEF AdderPC, GuestPC
    <3>2. Sourced(r)' /\ Adding(r)'
      BY <2>3 DEF Sourced, Adding, Continues, At
    <3> QED
      BY <1>5, <2>3, <3>1, <3>2 DEF At
  <2> QED
    BY <1>3, <2>1, <2>2, <2>3
<1>9. CASE FindDownload(r)
  <2>1. At(r, "prepare") /\ engine' = engine /\ call[r].op = "prepare" /\ "prepare" \in May(r)
    BY <1>9, AdderShape DEF FindDownload, engineVars, At
  <2>2. CASE /\ Others(r) /\ call'[r].op = "prepare" /\ call'[r].source = call[r].source
             /\ call'[r].pc = "adopt" \/ (call[r].source \in managed /\ call'[r].pc = "inspect")
    <3>1. Adder(r)'
      BY <1>2, <2>1, <2>2 DEF Adder, AdderPC
    <3>2. Sourced(r)' /\ Adding(r)'
      BY <1>1, <2>2 DEF Sourced, Adding, At
    <3> QED
      BY <1>4, <2>2, <3>1, <3>2 DEF At
  <2> QED
    BY <1>3, <1>9, <2>1, <2>2, FindEffect
<1>10. CASE AdoptSibling(r)
  <2>1. At(r, "adopt") /\ engine' = engine /\ call[r].op = "prepare" /\ AdmissionPC = "add"
    BY <1>10, AdderShape DEF AdoptSibling, engineVars, At, AdmissionPC, Adds
  <2>2. CASE RowsOf(t) = {} /\ Continues(r, "add")
    <3>1. Sourced(r)' /\ Adding(r)'
      BY <1>7, <2>2 DEF Sourced, Adding, Continues, At
    <3> QED
      BY <1>5, <2>1, <2>2, <3>1 DEF AdderPC, At
  <2>3. CASE t \in engine /\ Continues(r, "adopted")
    <3>1. Sourced(r)' /\ Adding(r)'
      BY <1>7, <2>1, <2>3 DEF Sourced, Adding, Continues, At
    <3> QED
      BY <1>5, <2>1, <2>3, <3>1 DEF AdderPC, At
  <2> QED
    BY <1>3, <1>6, <1>10, <2>1, <2>2, <2>3, AdoptEffect
<1>11. CASE FindSeason(r)
  <2>1. At(r, "season") /\ engine' = engine /\ call[r].op = "season" /\ AdmissionPC = "add"
    BY <1>11, AdderShape DEF FindSeason, engineVars, AdmissionPC, Adds
  <2>2. CASE Continues(r, "add")
    <3>1. Sourced(r)' /\ Adding(r)'
      BY <2>1, <2>2 DEF Sourced, Adding, Continues, At
    <3> QED
      BY <1>5, <2>1, <2>2, <3>1 DEF AdderPC, At
  <2>3. CASE RowsOf(t) # {} /\ Continues(r, "files")
    <3>1. t \in engine
      BY <2>3 DEF Keeps, Wanted, RowsOf, FilesOf
    <3>2. Sourced(r)' /\ Adding(r)'
      BY <1>7, <2>1, <2>3, <3>1 DEF Sourced, Adding, Continues, At
    <3> QED
      BY <1>5, <2>1, <2>3, <3>2 DEF AdderPC, At
  <2> QED
    BY <1>6, <1>11, <2>1, <2>2, <2>3, GotoEffect DEF FindSeason
<1>12. CASE AddTorrent(r)
  <2>1. At(r, "add") /\ engine' = engine \cup {t} /\ Continues(r, "files") /\ call[r].op \in {"prepare", "season"}
    BY <1>6, <1>12, GotoEffect, AdderShape DEF AddTorrent, At
  <2>2. Sourced(r)'
    BY <1>7, <2>1 DEF Sourced, Continues, At
  <2>3. Adding(r)'
    BY <1>6, <1>7, <2>1 DEF Keeps, Adding, Continues, At
  <2> QED
    BY <1>5, <2>1, <2>2, <2>3 DEF AdderPC, At
<1>13. CASE ListFiles(r)
  <2>1. At(r, "files") /\ engine' = engine /\ call[r].op \in {"prepare", "season"}
    BY <1>13, AdderShape DEF ListFiles, engineVars, At
  <2>2. PICK rows : rows = RowsOf(t) \cup (IF call[r].op = "season" THEN FilesOf(t) ELSE {call[r].source})
    OBVIOUS
  <2>3. CASE t \in engine /\ Continues(r, "apply") /\ call'[r].rows = rows
    <3>1. Sourced(r)'
      BY <1>7, <2>1, <2>3 DEF Sourced, Continues, At
    <3>2. Adding(r)'
      BY <1>6, <1>7, <2>1, <2>2, <2>3 DEF Keeps, Adding, Continues, At
    <3> QED
      BY <1>5, <2>1, <2>3, <3>1, <3>2 DEF AdderPC, At
  <2> QED
    BY <1>3, <1>6, <1>13, <2>1, <2>2, <2>3, FilesEffect DEF Copies
<1>14. CASE ListRoute(r)
  <2>1. At(r, "list") /\ Continues(r, "rewrite") /\ call'[r].rows = RowsOf(t)
    BY <1>6, <1>14, RouteEffect DEF ListRoute, Copies
  <2>2. "rewrite" \in AdderPC(call[r].op) /\ call[r].op # "season"
    BY <2>1, AdderShape DEF AdderPC
  <2>3. Sourced(r)' /\ Adding(r)'
    BY <1>1, <2>1, <2>2 DEF Sourced, Adding, Continues, RowsOf, At
  <2> QED
    BY <1>5, <2>1, <2>2, <2>3 DEF At
<1> QED
  BY <1>8, <1>9, <1>10, <1>11, <1>12, <1>13, <1>14

\* The adder saves rows: new ones of a torrent it selected, or is waiting to.
LEMMA AdderSaves ==
  ASSUME TypeOK, NEW r \in Request, Adds(r), Keeps(r), load' = load,
         SaveManaged(r) \/ SaveAdopted(r) \/ RecordDownload(r) \/ RefreshRow(r) \/ RewriteRow(r)
  PROVE  Keeps(r)'
<1>1. UNCHANGED <<engine, selected, onDisk>>
  BY DEF SaveManaged, SaveAdopted, RecordDownload, RefreshRow, RewriteRow, engineVars
<1>2. call[r].pc \notin {"inspect", "select"} /\ May(r)' = May(r)
  BY DEF SaveManaged, SaveAdopted, RecordDownload, RefreshRow, RewriteRow, At, May
<1>3. ASSUME NEW pc, Continues(r, pc), ~At(r, "idle"), pc \in AdderPC(call[r].op) PROVE Adder(r)'
  BY <1>2, <1>3, AdderShape DEF Adder, Continues
<1>4. ASSUME NEW s, managed' = managed \cup {s}, Others(r), Adder(r)', Sourced(r)', Adding(r)', ~At(r, "select")',
             TorrentOf[s] \in engine,
             s \in selected \cup onDisk \/ (At(r, "inspect") /\ Awaits(r, s))',
             \A q \in Request \ {r} : At(q, "select") =>
                 s \notin FilesOf(Route(q)) \/ s \in onDisk \/ (At(r, "inspect") /\ Awaits(r, s))'
      PROVE  Keeps(r)'
  <2>1. Wanted(r)'
    BY <1>1, <1>2, <1>4 DEF Keeps, Wanted, Awaits
  <2>2. ASSUME NEW q \in Request \ {r} PROVE Beside(r, q)'
    <3>1. call'[q] = call[q] /\ Beside(r, q)
      BY <1>4, <2>2 DEF Others, Keeps
    <3>2. PICK t : t = Route(q)
      OBVIOUS
    <3>3. Route(q)' = t /\ RowsOf(t)' \subseteq RowsOf(t) \cup ({s} \cap FilesOf(t))
      BY <1>4, <3>1, <3>2 DEF Route, RowsOf, FilesOf
    <3> QED
      BY <1>1, <1>2, <1>4, <2>2, <3>1, <3>2, <3>3 DEF Beside, Awaits, At
  <2> QED
    BY <1>1, <1>4, <2>1, <2>2, AdderStep
<1>5. CASE SaveManaged(r)
  <2>1. At(r, "save") /\ call[r].source \in managed
    BY <1>5 DEF SaveManaged, Keeps, Sourced, At
  <2>2. managed' = managed
    BY <1>5, <2>1 DEF SaveManaged, SaveDownload
  <2>3. Ends(r) \/ (call[r].op = "stream" /\ Continues(r, "lease"))
    BY <1>5, GotoEffect, ReturnEffect DEF SaveManaged
  <2>4. CASE call[r].op = "stream" /\ Continues(r, "lease")
    <3>1. Adder(r)'
      BY <1>3, <2>1, <2>4 DEF AdderPC, GuestPC, At
    <3>2. Sourced(r)' /\ Adding(r)'
      BY <2>4 DEF Sourced, Adding, Continues, At
    <3> QED
      BY <1>1, <1>2, <2>2, <2>4, <3>1, <3>2, QuietAdder DEF Continues, At
  <2> QED
    BY <1>1, <1>2, <2>2, <2>3, <2>4, AdderEnds
<1>6. CASE SaveAdopted(r)
  <2>1. PICK s : s = call[r].source
    OBVIOUS
  <2>2. At(r, "adopted") /\ call[r].op = "prepare" /\ managed' = managed \cup {s} /\ TorrentOf[s] \in engine
    BY <1>6, <2>1, AdderShape DEF SaveAdopted, SaveDownload, Keeps, Sourced, Route, At
  <2>3. CASE Ends(r) /\ s \in onDisk
    <3>1. call'[r].op = "none" /\ call'[r].pc = "idle" /\ call'[r].rows = {} /\ Others(r)
      BY <2>3, NoCallFields DEF Ends
    <3>2. Adder(r)' /\ Sourced(r)' /\ Adding(r)'
      BY <3>1 DEF Adder, Sourced, Adding, At
    <3> QED
      BY <1>4, <2>2, <2>3, <3>1, <3>2 DEF At
  <2>4. CASE Continues(r, "inspect")
    <3>1. Adder(r)'
      BY <1>3, <2>2, <2>4 DEF AdderPC, At
    <3>2. Sourced(r)' /\ Adding(r)'
      BY <2>1, <2>2, <2>4 DEF Sourced, Adding, Continues, At
    <3>3. (At(r, "inspect") /\ Awaits(r, s))'
      BY <2>1, <2>2, <2>4 DEF Awaits, Continues, At
    <3> QED
      BY <1>4, <2>2, <2>4, <3>1, <3>2, <3>3 DEF Continues, At
  <2> QED
    BY <1>6, <2>1, <2>3, <2>4, GotoEffect, ReturnEffect DEF SaveAdopted, CompletedLocal
<1>7. CASE RecordDownload(r)
  <2>1. PICK s : s = call[r].source
    OBVIOUS
  <2>2. /\ At(r, "record") /\ call[r].op = "prepare" /\ managed' = managed \cup {s}
        /\ TorrentOf[s] \in engine /\ s \in selected /\ RowsOf(TorrentOf[s]) = {}
    BY <1>7, <2>1, AdderShape DEF RecordDownload, SaveDownload, Keeps, Sourced, Adding, Route, At
  <2>3. Ends(r)
    BY <1>7, ReturnEffect DEF RecordDownload
  <2>4. call'[r].op = "none" /\ call'[r].pc = "idle" /\ call'[r].rows = {} /\ Others(r)
    BY <2>3, NoCallFields DEF Ends
  <2>5. Adder(r)' /\ Sourced(r)' /\ Adding(r)'
    BY <2>4 DEF Adder, Sourced, Adding, At
  <2>6. ASSUME NEW q \in Request \ {r}, At(q, "select") PROVE s \notin FilesOf(Route(q))
    <3>1. call[q].source \in managed /\ call[q].source \in Source
      BY <2>6, Fields DEF Keeps, Sourced, At
    <3> QED
      BY <2>2, <3>1 DEF RowsOf, FilesOf, Route
  <2> QED
    BY <1>4, <2>2, <2>4, <2>5, <2>6 DEF At
<1>8. CASE RefreshRow(r) \/ (RewriteRow(r) /\ call[r].op # "season")
  <2>1. PICK s \in call[r].rows : Drops(r, s) /\ managed' = managed \cup {s}
    BY <1>8, RefreshEffect, RewriteEffect
  <2>2. At(r, "refresh") \/ (At(r, "rewrite") /\ call[r].op # "season")
    BY <1>8 DEF RefreshRow, RewriteRow
  <2>3. managed' = managed
    BY <2>1, <2>2 DEF Keeps, Sourced
  <2>4. Adder(r)' /\ Sourced(r)' /\ Adding(r)'
    <3>1. Adder(r)'
      BY <1>2, <2>1, <2>2 DEF Keeps, Adder, Drops, Continues, At
    <3>2. Sourced(r)' /\ Adding(r)'
      BY <2>1, <2>2, <2>3 DEF Keeps, Sourced, Adding, Drops, Continues, Copies, At
    <3> QED
      BY <3>1, <3>2
  <2> QED
    BY <1>1, <1>2, <2>1, <2>2, <2>3, <2>4, QuietAdder DEF Drops, Continues, At
<1>9. CASE RewriteRow(r) /\ call[r].op = "season"
  <2>1. PICK s \in call[r].rows : Drops(r, s) /\ managed' = managed \cup {s}
    BY <1>9, RewriteEffect
  <2>2. At(r, "rewrite") /\ "season" \in May(r)
    BY <1>9, AdderShape DEF RewriteRow, At
  <2>3. Adder(r)'
    BY <1>2, <2>1, <2>2 DEF Keeps, Adder, Drops, Continues, At
  <2>4. Sourced(r)' /\ Adding(r)'
    BY <1>1, <1>9, <2>1, <2>2 DEF Keeps, Sourced, Adding, Drops, Continues, Copies, At
  <2>5. TorrentOf[s] \in engine /\ s \in selected \cup onDisk
    BY <1>9, <2>2 DEF Keeps, Adding
  <2>6. \A q \in Request \ {r} : ~At(q, "select")
    BY <2>2 DEF Keeps, Guest, GuestPC, Adds, At
  <2> QED
    BY <1>4, <2>1, <2>2, <2>3, <2>4, <2>5, <2>6 DEF Drops, Continues, At
<1> QED
  BY <1>5, <1>6, <1>7, <1>8, <1>9

\* With the stream mutex the adder lists every row there is and its own source.
LEMMA AdderInspects ==
  ASSUME TypeOK, NEW r \in Request, Adds(r), Keeps(r), load' = load, Inspect(r)
  PROVE  Keeps(r)'
<1>1. UNCHANGED <<managed, engine, selected, onDisk>> /\ At(r, "inspect") /\ ~StreamLocked(Route(r))
  BY DEF Inspect, rowVars
<1>2. PICK t : t = Route(r)
  OBVIOUS
<1>3. call[r].source \in RowsOf(t) /\ t \in engine
  BY <1>1, <1>2, Fields DEF Keeps, Sourced, Wanted, RowsOf, FilesOf, Route, At
<1>4. Continues(r, "select") /\ call'[r].rows = RowsOf(t) \cup {call[r].source}
  BY <1>2, <1>3, InspectEffect DEF Copies
<1>5. Route(r)' = t /\ RowsOf(t)' = RowsOf(t)
  BY <1>1, <1>2, <1>4 DEF Continues, Route, RowsOf, FilesOf
<1>6. Adder(r)'
  <2>1. May(r)' = May(r) /\ "select" \in AdderPC(call[r].op)
    BY <1>1, AdderShape DEF AdderPC, GuestPC, May, At
  <2> QED
    BY <1>1, <1>4, <2>1, AdderShape DEF Adder, Continues, At
<1>7. Sourced(r)' /\ Adding(r)'
  BY <1>1, <1>3, <1>4, <1>5 DEF Sourced, Adding, Continues, RowsOf, At
<1>8. Wanted(r)'
  BY <1>1, <1>4 DEF Keeps, Wanted, Awaits, Continues
<1>9. ASSUME NEW q \in Request \ {r} PROVE Beside(r, q)'
  <2> SUFFICES ASSUME At(q, "select")' PROVE Beside(r, q)'
    BY DEF Beside
  <2>1. call'[q] = call[q] /\ At(q, "select") /\ Beside(r, q)
    BY <1>4, <1>9 DEF Continues, Others, Keeps, At
  <2>2. PICK u : u = Route(q)
    OBVIOUS
  <2>3. u # t /\ Route(q)' = u /\ RowsOf(u)' = RowsOf(u)
    BY <1>1, <1>2, <2>1, <2>2 DEF StreamLocked, Route, RowsOf, FilesOf, At
  <2>4. \A s \in RowsOf(u) : ~Awaits(r, s)
    BY <1>2, <2>3 DEF Awaits, RowsOf, FilesOf, Route
  <2> QED
    BY <1>1, <1>5, <2>1, <2>2, <2>3, <2>4 DEF Beside
<1> QED
  BY <1>1, <1>4, <1>6, <1>7, <1>8, <1>9, AdderStep DEF Continues

LEMMA AdderSelects ==
  ASSUME TypeOK, NEW r \in Request, Adds(r), Keeps(r), load' = load, SelectFiles(r)
  PROVE  Keeps(r)'
<1>1. UNCHANGED <<managed, engine, onDisk>> /\ (At(r, "select") \/ At(r, "apply"))
  BY DEF SelectFiles, rowVars, At
<1>2. PICK t : t = Route(r)
  OBVIOUS
<1>3. t \in engine
  BY <1>1, <1>2 DEF Keeps, Sourced, Wanted, Route, At
<1>4. /\ Others(r) /\ call'[r].op = call[r].op /\ call'[r].source = call[r].source
      /\ selected' = (selected \ FilesOf(t)) \cup call[r].rows
      /\ \/ At(r, "select") /\ call'[r].pc = "save"
         \/ At(r, "apply") /\ call[r].op = "season" /\ call'[r].pc = "rewrite" /\ call'[r].rows = FilesOf(t)
         \/ At(r, "apply") /\ call[r].op # "season" /\ call'[r].pc = "record"
  BY <1>2, <1>3, SelectEffect DEF Continues, Copies
<1>5. Route(r)' = t /\ RowsOf(t)' = RowsOf(t) /\ FilesOf(t)' = FilesOf(t)
  BY <1>1, <1>2, <1>4 DEF Route, RowsOf, FilesOf
<1>6. ~At(r, "idle") /\ May(r)' = May(r)
  BY <1>1 DEF May, At
<1>7. RowsOf(t) \subseteq selected'
  BY <1>1, <1>2, <1>4, AdderShape DEF Keeps, Adding, RowsOf, At
<1>8. Adder(r)'
  <2>1. call'[r].pc \in AdderPC(call[r].op)
    BY <1>1, <1>4, AdderShape DEF AdderPC, GuestPC, At
  <2> QED
    BY <1>4, <1>6, <2>1, AdderShape DEF Adder
<1>9. Sourced(r)'
  BY <1>1, <1>3, <1>4, <1>5 DEF Keeps, Sourced, At
<1>10. Adding(r)'
  <2>1. CASE call'[r].pc = "save"
    BY <2>1 DEF Adding, At
  <2>2. CASE At(r, "apply") /\ call[r].op # "season" /\ call'[r].pc = "record"
    <3>1. call[r].op = "prepare"
      BY <2>2, AdderShape DEF At
    <3>2. call[r].source \in call[r].rows /\ RowsOf(t) = {}
      BY <1>2, <2>2, <3>1 DEF Keeps, Adding, At
    <3> QED
      BY <1>4, <1>5, <2>2, <3>1, <3>2 DEF Adding, At
  <2>3. CASE At(r, "apply") /\ call[r].op = "season" /\ call'[r].pc = "rewrite" /\ call'[r].rows = FilesOf(t)
    <3>1. FilesOf(t) \subseteq selected' /\ \A s \in FilesOf(t) : TorrentOf[s] \in engine
      BY <1>2, <1>3, <1>4, <2>3 DEF Keeps, Adding, FilesOf
    <3> QED
      BY <1>1, <1>4, <2>3, <3>1 DEF Adding, At
  <2> QED
    BY <1>4, <2>1, <2>2, <2>3
<1>11. Wanted(r)'
  <2> SUFFICES ASSUME NEW s \in managed PROVE TorrentOf[s] \in engine /\ s \in selected' \cup onDisk
    BY <1>1 DEF Wanted
  <2>1. TorrentOf[s] \in engine /\ (s \in selected \cup onDisk \/ Awaits(r, s)) /\ s \in Source
    BY DEF Keeps, Wanted, TypeOK
  <2>2. CASE s \in FilesOf(t)
    BY <1>7, <2>1, <2>2 DEF RowsOf
  <2>3. CASE s \notin FilesOf(t)
    BY <1>2, <1>4, <2>1, <2>3 DEF Awaits, FilesOf, Route
  <2> QED
    BY <2>2, <2>3
<1>12. ASSUME NEW q \in Request \ {r} PROVE Beside(r, q)'
  <2>1. ~At(r, "inspect") /\ ~At(r, "select")'
    BY <1>1, <1>4 DEF At
  <2>2. call'[q] = call[q] /\ Beside(r, q)
    BY <1>4, <1>12 DEF Others, Keeps
  <2> QED
    BY <1>1, <2>1, <2>2 DEF Beside, RowsOf, FilesOf, Route, At
<1> QED
  BY <1>1, <1>4, <1>8, <1>9, <1>10, <1>11, <1>12, AdderStep

LEMMA AdderKeeps ==
  ASSUME TypeOK, NEW r \in Request, Adds(r), Keeps(r), load' = load, Start(r) \/ Step(r) \/ Release(r)
  PROVE  Keeps(r)'
<1>1. /\ ~SurveyRows(r) /\ ~SampleRoute(r) /\ ~Choose(r)
      /\ ~EngineRemove(r) /\ ~ListForget(r) /\ ~DeleteRow(r) /\ ~Forgotten(r)
  BY AdderShape DEF SurveyRows, SampleRoute, Choose, EngineRemove, ListForget, DeleteRow, Forgotten, At
<1> QED
  BY <1>1, AdderStarts, AdderMoves, AdderSaves, AdderInspects, AdderSelects DEF Step

\* A guest saves rows there are and selects what it listed of them.
LEMMA GuestWorks ==
  ASSUME TypeOK, NEW q \in Request, Guest(q), Sourced(q), GuestSteps(q),
         \A s \in managed : TorrentOf[s] \in engine
  PROVE  /\ UNCHANGED <<managed, engine, onDisk>> /\ Others(q) /\ Sourced(q)'
         /\ \/ At(q, "inspect") /\ ~StreamLocked(Route(q)) /\ Continues(q, "select")
               /\ call'[q].rows = RowsOf(Route(q)) \cup {call[q].source} /\ selected' = selected
            \/ ~At(q, "select")' /\ selected' = selected
            \/ /\ At(q, "select") /\ ~At(q, "select")'
               /\ selected' = (selected \ FilesOf(Route(q))) \cup call[q].rows
<1> USE DEF rowVars, engineVars
<1>1. call[q].op # "season" \/ At(q, "idle")
  BY DEF Guest
<1>2. ASSUME NEW s \in managed, Acquire(q, s)
      PROVE  Sourced(q)' /\ ~At(q, "select")' /\ Others(q) /\ UNCHANGED <<managed, engine, onDisk, selected>>
  <2>1. PICK pc \in {"lease", "inspect"} : Begins(q, "stream", pc, s)
    BY <1>2, AcquireEffect
  <2>2. UNCHANGED <<managed, engine, onDisk, selected>>
    BY <1>2 DEF Acquire
  <2> QED
    BY <2>1, <2>2 DEF Sourced, Begins, At
<1>3. ASSUME NEW s, NEW op, Toggle(q, op, s), TorrentOf[s] \in engine
      PROVE  Sourced(q)' /\ ~At(q, "select")' /\ Others(q) /\ UNCHANGED <<managed, engine, onDisk, selected>>
  <2>1. Begins(q, op, "list", s)
    BY <1>3, BeginEffect DEF Toggle
  <2> QED
    BY <1>3, <2>1 DEF Toggle, Sourced, Begins, At
<1>4. ASSUME Ends(q) PROVE Sourced(q)' /\ ~At(q, "select")' /\ Others(q)
  BY <1>4, NoCallFields DEF Ends, Sourced, At
<1>5. CASE SetLease(q) \/ Release(q) \/ Written(q)
  <2>1. UNCHANGED <<managed, engine, onDisk, selected>>
    BY <1>5 DEF SetLease, Release, Written
  <2>2. Ends(q) \/ Continues(q, "streaming")
    BY <1>5, GotoEffect, ReturnEffect DEF SetLease, Release, Written
  <2>3. Continues(q, "streaming") => Sourced(q)' /\ ~At(q, "select")' /\ Others(q)
    BY DEF Continues, Sourced, At
  <2> QED
    BY <1>4, <2>1, <2>2, <2>3
<1>6. CASE Inspect(q)
  <2>1. UNCHANGED <<managed, engine, onDisk, selected>> /\ At(q, "inspect") /\ ~StreamLocked(Route(q))
    BY <1>6 DEF Inspect
  <2>2. \/ Ends(q)
        \/ Continues(q, "select") /\ call'[q].rows = RowsOf(Route(q)) \cup {call[q].source}
    <3>1. Route(q) \in engine
      BY <2>1 DEF Sourced, Route, At
    <3> QED
      BY <1>6, <3>1, InspectEffect DEF Copies
  <2>3. Continues(q, "select") => Sourced(q)' /\ Others(q)
    BY <2>1 DEF Continues, Sourced, At
  <2> QED
    BY <1>4, <2>1, <2>2, <2>3
<1>7. CASE At(q, "select") /\ SelectFiles(q)
  <2>1. UNCHANGED <<managed, engine, onDisk>> /\ call[q].source \in managed
    BY <1>7 DEF SelectFiles, Sourced, At
  <2>2. Route(q) \in engine
    BY <2>1 DEF Route
  <2>3. Continues(q, "save") /\ selected' = (selected \ FilesOf(Route(q))) \cup call[q].rows
    BY <1>7, <2>2, SelectEffect DEF At
  <2>4. Sourced(q)' /\ ~At(q, "select")' /\ Others(q)
    BY <2>1, <2>3 DEF Continues, Sourced, At
  <2> QED
    BY <1>7, <2>1, <2>3, <2>4
<1>8. CASE SaveManaged(q)
  <2>1. At(q, "save") /\ call[q].source \in managed
    BY <1>8 DEF SaveManaged, Sourced, At
  <2>2. UNCHANGED <<managed, engine, onDisk, selected>>
    BY <1>8, <2>1 DEF SaveManaged, SaveDownload
  <2>3. Ends(q) \/ Continues(q, "lease")
    BY <1>8, GotoEffect, ReturnEffect DEF SaveManaged
  <2>4. Continues(q, "lease") => Sourced(q)' /\ ~At(q, "select")' /\ Others(q)
    BY DEF Continues, Sourced, At
  <2> QED
    BY <1>4, <2>2, <2>3, <2>4
<1>9. CASE ListRoute(q)
  <2>1. UNCHANGED <<managed, engine, onDisk, selected>>
    BY <1>9 DEF ListRoute
  <2>2. Continues(q, "rewrite") /\ call'[q].rows = RowsOf(Route(q))
    BY <1>9, RouteEffect DEF Copies
  <2>3. Sourced(q)' /\ ~At(q, "select")' /\ Others(q)
    BY <2>1, <2>2 DEF Continues, Sourced, RowsOf, At
  <2> QED
    BY <2>1, <2>3
<1>10. CASE RewriteRow(q)
  <2>1. At(q, "rewrite") /\ call[q].op # "season" /\ call[q].rows \subseteq managed
    BY <1>1, <1>10 DEF RewriteRow, Sourced, At
  <2>2. PICK s \in call[q].rows : Drops(q, s) /\ managed' = managed \cup {s}
    BY <1>10, RewriteEffect
  <2>3. UNCHANGED <<managed, engine, onDisk, selected>>
    BY <1>10, <2>1, <2>2 DEF RewriteRow
  <2>4. Sourced(q)' /\ ~At(q, "select")' /\ Others(q)
    BY <2>1, <2>2, <2>3 DEF Drops, Continues, Copies, Sourced, At
  <2> QED
    BY <2>3, <2>4
<1> QED
  BY <1>2, <1>3, <1>5, <1>6, <1>7, <1>8, <1>9, <1>10 DEF GuestSteps

LEMMA GuestKeeps ==
  ASSUME TypeOK, NEW r \in Request, Adds(r), Keeps(r), load' = load, NEW q \in Request \ {r},
         Start(q) \/ Step(q) \/ Release(q)
  PROVE  Keeps(r)'
<1>1. Guest(q) /\ Sourced(q) /\ Beside(r, q) /\ May(q) \subseteq {"stream", "pause", "resume"} /\ load.faults = {}
  BY DEF Keeps, Adds
<1>2. GuestSteps(q)
  BY <1>1, GuestActs
<1>3. PICK t : t = Route(q)
  OBVIOUS
<1>4. /\ UNCHANGED <<managed, engine, onDisk>> /\ Others(q) /\ Sourced(q)'
      /\ \/ At(q, "inspect") /\ ~StreamLocked(t) /\ Continues(q, "select")
            /\ call'[q].rows = RowsOf(t) \cup {call[q].source} /\ selected' = selected
         \/ ~At(q, "select")' /\ selected' = selected
         \/ At(q, "select") /\ ~At(q, "select")' /\ selected' = (selected \ FilesOf(t)) \cup call[q].rows
  <2>1. \A s \in managed : TorrentOf[s] \in engine
    BY DEF Keeps, Wanted
  <2> QED
    BY <1>1, <1>2, <1>3, <2>1, GuestWorks
<1>5. call'[r] = call[r] /\ \A p \in Request \ {r, q} : call'[p] = call[p]
  BY <1>4 DEF Others
<1>6. \A u : RowsOf(u)' = RowsOf(u) /\ FilesOf(u)' = FilesOf(u)
  BY <1>4 DEF RowsOf, FilesOf
<1>7. Adder(r)' /\ Sourced(r)'
  BY <1>4, <1>5, SourcedKept DEF Keeps, Adder, May, At
<1>8. Guest(q)' /\ \A p \in Request \ {r, q} : Guest(p)' /\ Sourced(p)'
  BY <1>1, <1>2, <1>4, <1>5, GuestStays, GuestSame, SourcedKept DEF Keeps
<1>9. ASSUME At(q, "select") PROVE call[q].source \in RowsOf(t) /\ call[q].op = "stream" /\ "stream" \in May(q)
  <2>1. call[q].source \in RowsOf(t)
    BY <1>1, <1>3, <1>9, Fields DEF Sourced, RowsOf, FilesOf, Route, At
  <2> QED
    BY <1>1, <1>9, <2>1 DEF Guest, GuestPC, At
<1>10. Adding(r)'
  <2>1. PICK u : u = Route(r)
    OBVIOUS
  <2>2. Route(r)' = u
    BY <1>5, <2>1 DEF Route
  <2>3. CASE selected' = selected
    BY <1>4, <1>5, <1>6, <2>1, <2>2, <2>3 DEF Keeps, Adding, At
  <2>4. CASE At(q, "select") /\ selected' = (selected \ FilesOf(t)) \cup call[q].rows
    <3>1. call[r].op # "season" \/ At(r, "idle")
      BY <1>9, <2>4, AdderShape DEF Adds
    <3>2. At(r, "record") => call[r].source \in selected'
      <4> SUFFICES ASSUME At(r, "record") PROVE call[r].source \in selected'
        OBVIOUS
      <4>1. RowsOf(u) = {} /\ call[r].source \in selected
        BY <2>1, AdderShape DEF Keeps, Adding, At
      <4>2. u # t
        BY <1>9, <2>4, <4>1
      <4> QED
        BY <2>1, <2>4, <4>1, <4>2 DEF FilesOf, Route
    <3> QED
      BY <1>4, <1>5, <1>6, <2>1, <2>2, <3>1, <3>2 DEF Keeps, Adding, At
  <2> QED
    BY <1>4, <2>3, <2>4
<1>11. Wanted(r)'
  <2>1. \A s : Awaits(r, s)' <=> Awaits(r, s)
    BY <1>5 DEF Awaits
  <2>2. CASE selected' = selected
    BY <1>4, <2>1, <2>2 DEF Keeps, Wanted
  <2>3. CASE At(q, "select") /\ selected' = (selected \ FilesOf(t)) \cup call[q].rows
    <3> SUFFICES ASSUME NEW s \in managed PROVE TorrentOf[s] \in engine /\ (s \in selected' \cup onDisk \/ Awaits(r, s))
      BY <1>4, <2>1 DEF Wanted
    <3>1. TorrentOf[s] \in engine /\ (s \in selected \cup onDisk \/ Awaits(r, s)) /\ s \in Source
      BY DEF Keeps, Wanted, TypeOK
    <3>2. CASE s \in FilesOf(t)
      <4>1. s \in RowsOf(t)
        BY <3>2 DEF RowsOf
      <4> QED
        BY <1>1, <1>3, <2>3, <3>1, <4>1 DEF Beside
    <3>3. CASE s \notin FilesOf(t)
      BY <2>3, <3>1, <3>3
    <3> QED
      BY <3>2, <3>3
  <2> QED
    BY <1>4, <2>2, <2>3
<1>12. Beside(r, q)'
  <2>1. CASE ~At(q, "select")'
    BY <2>1 DEF Beside
  <2>2. CASE /\ ~StreamLocked(t) /\ Continues(q, "select")
             /\ call'[q].rows = RowsOf(t) \cup {call[q].source}
    <3>1. Route(q)' = t
      BY <1>3, <2>2 DEF Continues, Route
    <3>2. At(r, "select")' => Route(r)' # t
      BY <1>5, <2>2 DEF StreamLocked, Route, At
    <3> QED
      BY <1>6, <2>2, <3>1, <3>2 DEF Beside
  <2> QED
    BY <1>4, <2>1, <2>2
<1>13. ASSUME NEW p \in Request \ {r, q} PROVE Beside(r, p)'
  <2>1. call'[p] = call[p] /\ Beside(r, p)
    BY <1>5, <1>13 DEF Keeps
  <2> QED
    BY <1>4, <1>5, <1>6, <2>1 DEF Beside, Awaits, Route, RowsOf, FilesOf, At
<1> QED
  BY <1>4, <1>7, <1>8, <1>10, <1>11, <1>12, <1>13 DEF Keeps

LEMMA NextKeeps == ASSUME TypeOK, KeepInv, [Next]_vars PROVE KeepInv'
<1> SUFFICES ASSUME NEW r \in Request, Adds(r)' PROVE Keeps(r)'
  BY DEF KeepInv
<1>1. load' = load /\ Adds(r) /\ Keeps(r)
  BY LoadSame, AddsSame DEF KeepInv
<1>2. CASE \E q \in Request : Start(q) \/ Step(q) \/ Release(q)
  BY <1>1, <1>2, AdderKeeps, GuestKeeps
<1>3. CASE UNCHANGED <<managed, engine, selected, call>> /\ onDisk \subseteq onDisk'
  <2>1. Adder(r)' /\ Sourced(r)' /\ \A q \in Request \ {r} : Guest(q)' /\ Sourced(q)'
    BY <1>1, <1>3, GuestSame, SourcedKept DEF Keeps, Adder, May, At
  <2>2. Adding(r)' /\ Wanted(r)'
    BY <1>1, <1>3 DEF Keeps, Adding, Wanted, Awaits, Route, RowsOf, FilesOf, At
  <2>3. \A q \in Request \ {r} : Beside(r, q)'
    BY <1>1, <1>3 DEF Keeps, Beside, Awaits, Route, RowsOf, FilesOf, At
  <2> QED
    BY <2>1, <2>2, <2>3 DEF Keeps
<1>4. ~(\E q \in Request : Fail(q)) /\ ~(\E t \in Torrent : Vanish(t)) /\ ~Crash
  BY <1>1 DEF Adds, Fail, Vanish, Crash
<1>5. CASE (\E s \in Source : FinishFile(s)) \/ UNCHANGED vars
  BY <1>3, <1>5 DEF FinishFile, vars, rowVars
<1> QED
  BY <1>2, <1>4, <1>5 DEF Next

LEMMA InitKeeps == Init => KeepInv
<1> SUFFICES ASSUME Init, NEW r \in Request PROVE Keeps(r)
  BY DEF KeepInv
<1>1. \A q \in Request : call[q].pc = "idle" /\ call[q].op = "none"
  BY NoCallFields DEF Init
<1>2. ASSUME NEW q \in Request PROVE Guest(q) /\ Sourced(q) /\ Adder(q) /\ Adding(q) /\ Beside(r, q)
  BY <1>1, <1>2 DEF Guest, Sourced, Adder, Adding, Beside, At
<1> QED
  BY <1>2 DEF Init, Keeps, Wanted

\* Every row stays selected until its file is complete, while one goroutine
\* adds torrents and rows and any number of others stream, pause and resume.
THEOREM RowsStaySelected == Spec => []SelectionKeepsRows
<1>1. Init => TypeOK /\ KeepInv
  BY InitType, InitKeeps
<1>2. TypeOK /\ KeepInv /\ [Next]_vars => KeepInv'
  BY NextKeeps
<1>3. KeepInv => SelectionKeepsRows
  <2> SUFFICES ASSUME KeepInv, OnlyAdditions, Quiescent, NEW s \in managed, TorrentOf[s] \in engine
               PROVE  s \in selected \cup onDisk
    BY DEF SelectionKeepsRows
  <2>1. PICK r \in Request : Adds(r)
    BY DEF OnlyAdditions, Adds
  <2>2. ~Awaits(r, s)
    BY DEF Quiescent, InFlight, Awaits
  <2> QED
    BY <2>1, <2>2 DEF KeepInv, Keeps, Wanted
<1> QED
  BY <1>1, <1>2, <1>3, TypeCorrect, PTL DEF Spec

-----------------------------------------------------------------------------
(* Bytes of a finite set of torrents.                                        *)

SizeOf(t) == Size[t]

Shelf == INSTANCE Sums WITH Weight <- SizeOf

LEMMA BytesSum == ASSUME NEW U PROVE Bytes(U) = Shelf!Sum(U)
BY DEF Bytes, MapThenSumSet, MapThenFoldSet,
       Shelf!Sum, Shelf!MapThenSumSet, Shelf!MapThenFoldSet, SizeOf

\* Any torrent of a finite set can be counted first.
LEMMA BytesSplit ==
  ASSUME NEW U, IsFiniteSet(U), U \subseteq Torrent
  PROVE  Bytes(U) \in Nat /\ \A t \in U : Bytes(U) = Size[t] + Bytes(U \ {t})
<1>1. \A t \in U : SizeOf(t) \in Nat
  BY ConstantsAssumption DEF SizeOf
<1>2. Shelf!IsFiniteSet(U)
  BY DEF IsFiniteSet, Shelf!IsFiniteSet
<1>3. Shelf!Sum(U) \in Nat /\ \A t \in U : Shelf!Sum(U) = SizeOf(t) + Shelf!Sum(U \ {t})
  BY <1>1, <1>2, Shelf!SumSplit
<1> QED
  BY <1>3, BytesSum DEF SizeOf

-----------------------------------------------------------------------------
(* The engine as the shelf of StorageBudget.  The survey lists the torrents  *)
(* with a row; that this is every torrent is OrphanInv, that the routes it   *)
(* has described and those it has yet to describe stay every torrent, and    *)
(* that what it counted still stands when the torrent is added is BudgetInv. *)

Routes == {TorrentOf[s] : s \in Source}

Room(n) == ~CapTripped(Bytes(engine) + n)

\* The routes described and those left make up what the engine holds.
Covers(r) ==
    /\ call[r].plan \subseteq engine
    /\ \A t \in engine : t \in call[r].plan \/ call[r].rows \cap FilesOf(t) # {}

BudgetInv ==
    /\ engine \subseteq Routes
    /\ \A r \in Request : Lone(r, {"stream"}) =>
          /\ At(r, "sample") => Covers(r)
          /\ At(r, "add") => Room(Incoming[Route(r)])

LEMMA RoutesFinite == IsFiniteSet(Routes) /\ Routes \subseteq Torrent
<1>1. TorrentOf \in Surjection(Source, Routes)
  BY ConstantsAssumption DEF Routes, Surjection
<1>2. IsFiniteSet(Routes)
  BY <1>1, FS_Surjection, ConstantsAssumption
<1> QED
  BY <1>2, ConstantsAssumption DEF Routes

\* The only step that takes torrents away takes one.
LEMMA EngineSteps ==
  ASSUME TypeOK, [Next]_vars
  PROVE  \/ engine' = engine
         \/ \E r \in Request : AddTorrent(r)
         \/ \E t \in Torrent : engine' = engine \ {t}
<1>1. ASSUME NEW r \in Request, Start(r) PROVE engine' = engine
  BY <1>1 DEF Start, StartRetention, ListDownloads, Acquire, StartPrepare, StartSeason, Remove, Toggle,
     engineVars
<1>2. ASSUME NEW r \in Request, Step(r), ~AddTorrent(r)
      PROVE  engine' = engine \/ engine' = engine \ {call[r].victim}
  BY <1>2 DEF Step, SetLease, Inspect, SelectFiles, SaveManaged, FindDownload, AdoptSibling, SaveAdopted,
     FindSeason, ListFiles, RecordDownload, SurveyRows, SampleRoute, Choose, EngineRemove, ListForget, DeleteRow, Forgotten,
     RefreshRow, ListRoute, RewriteRow, Written, engineVars
<1>3. ASSUME NEW r \in Request, Release(r) \/ Fail(r) PROVE engine' = engine
  BY <1>3 DEF Release, Fail, engineVars
<1>4. CASE Crash \/ (\E s \in Source : FinishFile(s)) \/ UNCHANGED vars
  BY <1>4 DEF Crash, FinishFile, vars, engineVars
<1>5. ASSUME NEW t \in Torrent, Vanish(t) PROVE engine' = engine \ {t}
  BY <1>5 DEF Vanish
<1> QED
  BY <1>1, <1>2, <1>3, <1>4, <1>5, Fields DEF Next

\* What reaches the addition of a torrent.
LEMMA EntersAdd ==
  ASSUME TypeOK, NEW r \in Request, Start(r) \/ Step(r) \/ Release(r), At(r, "add")'
  PROVE  AdoptSibling(r) \/ FindSeason(r) \/ Choose(r)
<1>1. ASSUME NEW pc, Continues(r, pc) PROVE pc = "add"
  BY <1>1 DEF Continues, At
<1>2. ~Ends(r)
  BY NoCallFields DEF Ends, At
<1>3. ~Start(r)
  <2>1. ASSUME NEW op, NEW pc, NEW s, Begin(r, op, pc, s) PROVE pc = "add"
    BY <2>1, BeginEffect DEF Begins, At
  <2>2. ~ListDownloads(r) /\ \A s : ~Acquire(r, s) /\ ~Remove(r, s)
    BY PollEffect, AcquireEffect, RemoveEffect DEF Begins, At
  <2> QED
    BY <2>1, <2>2 DEF Start, StartRetention, StartPrepare, StartSeason, Toggle
<1>4. ~SetLease(r) /\ ~SaveManaged(r) /\ ~SaveAdopted(r) /\ ~AddTorrent(r) /\ ~RecordDownload(r)
      /\ ~EngineRemove(r) /\ ~Forgotten(r) /\ ~Written(r) /\ ~Release(r)
  BY <1>1, <1>2, GotoEffect, ReturnEffect DEF SetLease, SaveManaged, SaveAdopted, AddTorrent, RecordDownload,
     EngineRemove, Forgotten, Written, Release
<1>5. ~Inspect(r) /\ ~SelectFiles(r) /\ ~ListFiles(r) /\ ~ListForget(r) /\ ~ListRoute(r)
  BY <1>1, <1>2, InspectEffect, SelectEffect, FilesEffect, ForgetEffect, RouteEffect
<1>6. ~FindDownload(r) /\ ~SurveyRows(r) /\ ~SampleRoute(r)
  BY <1>1, <1>2, FindEffect, SurveyEffect, SampleEffect DEF At
<1>7. ~DeleteRow(r) /\ ~RefreshRow(r) /\ ~RewriteRow(r)
  <2>1. ASSUME NEW s, Drops(r, s) PROVE call[r].pc = "add"
    BY <1>1, <2>1 DEF Drops
  <2> QED
    BY <1>2, <2>1, DeleteEffect, RefreshEffect, RewriteEffect DEF DeleteRow, RefreshRow, RewriteRow, At
<1> QED
  BY <1>3, <1>4, <1>5, <1>6, <1>7 DEF Step

\* What reaches or stays in the survey of the routes.
LEMMA EntersSample ==
  ASSUME TypeOK, NEW r \in Request, Start(r) \/ Step(r) \/ Release(r), At(r, "sample")'
  PROVE  SurveyRows(r) \/ SampleRoute(r)
<1>1. ASSUME NEW pc, Continues(r, pc) PROVE pc = "sample"
  BY <1>1 DEF Continues, At
<1>2. ~Ends(r)
  BY NoCallFields DEF Ends, At
<1>3. ~Start(r)
  <2>1. ASSUME NEW op, NEW pc, NEW s, Begin(r, op, pc, s) PROVE pc = "sample"
    BY <2>1, BeginEffect DEF Begins, At
  <2>2. ~ListDownloads(r) /\ \A s : ~Acquire(r, s) /\ ~Remove(r, s)
    BY PollEffect, AcquireEffect, RemoveEffect DEF Begins, At
  <2> QED
    BY <2>1, <2>2 DEF Start, StartRetention, StartPrepare, StartSeason, Toggle
<1>4. ~SetLease(r) /\ ~SaveManaged(r) /\ ~SaveAdopted(r) /\ ~FindSeason(r) /\ ~AddTorrent(r) /\ ~RecordDownload(r)
      /\ ~EngineRemove(r) /\ ~Forgotten(r) /\ ~Written(r) /\ ~Release(r)
  BY <1>1, <1>2, GotoEffect, ReturnEffect DEF SetLease, SaveManaged, SaveAdopted, FindSeason, AddTorrent,
     RecordDownload, EngineRemove, Forgotten, Written, Release, AdmissionPC
<1>5. ~Inspect(r) /\ ~AdoptSibling(r) /\ ~SelectFiles(r) /\ ~ListFiles(r) /\ ~ListForget(r) /\ ~ListRoute(r)
  BY <1>1, <1>2, InspectEffect, AdoptEffect, SelectEffect, FilesEffect, ForgetEffect, RouteEffect DEF AdmissionPC
<1>6. ~FindDownload(r) /\ ~Choose(r)
  BY <1>1, <1>2, FindEffect, ChooseEffect DEF At
<1>7. ~DeleteRow(r) /\ ~RefreshRow(r) /\ ~RewriteRow(r)
  <2>1. ASSUME NEW s, Drops(r, s) PROVE call[r].pc = "sample"
    BY <1>1, <2>1 DEF Drops
  <2> QED
    BY <1>2, <2>1, DeleteEffect, RefreshEffect, RewriteEffect DEF DeleteRow, RefreshRow, RewriteRow, At
<1> QED
  BY <1>3, <1>4, <1>5, <1>6, <1>7 DEF Step

\* The listing starts with every torrent left to describe.
LEMMA SurveyCovers ==
  ASSUME TypeOK, NEW r \in Request, Tending(r), SurveyRows(r) PROVE Covers(r)'
<1>1. At(r, "survey") /\ call'[r].rows = managed /\ call'[r].plan = {} /\ engine' = engine
  BY SurveyRowsShape DEF SurveyRows, engineVars
<1>2. \A t \in engine : RowsOf(t) # {}
  BY <1>1 DEF Tending, Finishing, At
<1> QED
  BY <1>1, <1>2 DEF Covers, RowsOf, FilesOf

LEMMA SampleCovers ==
  ASSUME TypeOK, NEW r \in Request, Covers(r), SampleRoute(r) PROVE Covers(r)'
<1>1. PICK s : /\ call'[r].rows = call[r].rows \ FilesOf(TorrentOf[s])
               /\ call'[r].plan = call[r].plan \cup ({TorrentOf[s]} \cap engine)
  BY SampleRouteShape
<1>2. engine' = engine
  BY DEF SampleRoute, engineVars
<1> QED
  BY <1>1, <1>2 DEF Covers, FilesOf

\* The admission check finds room for what it counts.
LEMMA AdmissionRoom ==
  ASSUME TypeOK, NEW r \in Request, At(r, "sample") => Covers(r),
         AdoptSibling(r) \/ FindSeason(r) \/ Choose(r), At(r, "add")'
  PROVE  Room(Incoming[Route(r)])
<1>1. CASE AdoptSibling(r) \/ FindSeason(r)
  <2>1. ~Ends(r) /\ \A pc : Continues(r, pc) => pc = "add"
    BY NoCallFields DEF Ends, Continues, At
  <2>2. AdmissionPC = "add"
    BY <1>1, <2>1, AdoptEffect, GotoEffect DEF FindSeason
  <2> QED
    BY <2>2 DEF AdmissionPC, Room, CapTripped
<1>2. CASE Choose(r)
  <2>1. call[r].plan = engine
    BY <1>2 DEF Choose, Covers
  <2>2. ~Ends(r) /\ \A t : call' # [call EXCEPT ![r].pc = "evict", ![r].victim = t]
    BY NoCallFields DEF Ends, TypeOK, Call, At
  <2>3. call[r].op # "retain"
    BY <1>2, <2>2, ReturnEffect DEF Choose
  <2>4. ~Return(r)
    BY <2>2, ReturnEffect
  <2>5. ~CapTripped(Bytes(engine) + Incoming[Route(r)])
    BY <1>2, <2>1, <2>2, <2>3, <2>4 DEF Choose, Deficit
  <2> QED
    BY <2>5 DEF Room
<1> QED
  BY <1>1, <1>2

LEMMA NextBudget == ASSUME TypeOK, OrphanInv, BudgetInv, [Next]_vars PROVE BudgetInv'
<1>1. (engine \subseteq Routes)'
  <2>1. \A r \in Request : Route(r) \in Routes
    BY Fields DEF Route, Routes
  <2>2. CASE \E r \in Request : AddTorrent(r)
    BY <2>1, <2>2 DEF AddTorrent, BudgetInv, Routes
  <2>3. CASE ~\E r \in Request : AddTorrent(r)
    <3>1. engine' \subseteq engine
      BY <2>3, EngineSteps
    <3> QED
      BY <3>1 DEF BudgetInv, Routes
  <2> QED
    BY <2>2, <2>3
<1>2. ASSUME NEW r \in Request, Lone(r, {"stream"})'
      PROVE  (At(r, "sample") => Covers(r))' /\ (At(r, "add") => Room(Incoming[Route(r)]))'
  <2>1. load' = load /\ Lone(r, {"stream"}) /\ load.faults = {}
    BY <1>2, LoadSame, LoneSame DEF Lone
  <2>2. Tending(r) /\ GuestsOf(r)
    BY <2>1 DEF OrphanInv
  <2>3. ASSUME engine' = engine, call'[r].source = call[r].source, Room(Incoming[Route(r)])
        PROVE  Room(Incoming[Route(r)])'
    <3>1. PICK n : n = Incoming[Route(r)]
      OBVIOUS
    <3>2. Incoming[Route(r)]' = n
      BY <2>3, <3>1 DEF Route
    <3>3. PICK m : m = Bytes(engine)
      OBVIOUS
    <3>4. Bytes(engine)' = m
      BY <2>3, <3>3
    <3> QED
      BY <2>1, <2>3, <3>1, <3>2, <3>3, <3>4 DEF Room, CapTripped, Allocation
  <2>4. CASE Start(r) \/ Step(r) \/ Release(r)
    <3>1. ASSUME At(r, "sample")' PROVE Covers(r)'
      BY <2>1, <2>2, <2>4, <3>1, EntersSample, SurveyCovers, SampleCovers, SampleEffect DEF BudgetInv
    <3>2. ASSUME At(r, "add")' PROVE Room(Incoming[Route(r)])'
      <4>1. AdoptSibling(r) \/ FindSeason(r) \/ Choose(r)
        BY <2>4, <3>2, EntersAdd
      <4>2. Room(Incoming[Route(r)])
        BY <2>1, <3>2, <4>1, AdmissionRoom DEF BudgetInv
      <4>3. engine' = engine
        BY <4>1 DEF AdoptSibling, FindSeason, Choose, engineVars
      <4>4. call'[r].source = call[r].source
        <5>1. ~Ends(r)
          BY <3>2, NoCallFields DEF Ends, At
        <5> QED
          BY <4>1, <5>1, AdoptEffect, GotoEffect, ChooseEffect DEF FindSeason, Continues
      <4> QED
        BY <2>3, <4>2, <4>3, <4>4
    <3> QED
      BY <3>1, <3>2
  <2>5. CASE engine' = engine /\ call'[r] = call[r]
    <3>1. Covers(r) => Covers(r)'
      BY <2>5 DEF Covers, FilesOf
    <3> QED
      BY <2>1, <2>3, <2>5, <3>1 DEF BudgetInv, At
  <2>6. ASSUME NEW q \in Request \ {r}, Start(q) \/ Step(q) \/ Release(q)
        PROVE  engine' = engine /\ call'[r] = call[r]
    <3>1. Guest(q) /\ May(q) \subseteq {"stream", "pause", "resume"}
      BY <2>1, <2>2 DEF Lone, GuestsOf
    <3> QED
      BY <2>1, <2>6, <3>1, GuestActs, GuestStays DEF Others
  <2>7. ~(\E q \in Request : Fail(q)) /\ ~(\E t \in Torrent : Vanish(t)) /\ ~Crash
    BY <2>1 DEF Fail, Vanish, Crash
  <2> QED
    BY <2>4, <2>5, <2>6, <2>7 DEF Next, FinishFile, vars
<1> QED
  BY <1>1, <1>2 DEF BudgetInv

LEMMA BudgetTotal == ASSUME NEW U PROVE Budget!Total(U) = Bytes(U)
BY DEF Budget!Total, Budget!MapThenSumSet, Budget!MapThenFoldSet, Bytes, MapThenSumSet, MapThenFoldSet

\* The torrent that is added fits.
LEMMA AddedFits ==
  ASSUME TypeOK, OrphanInv, BudgetInv, Alone({"stream"}), \A t \in Torrent : Size[t] <= Incoming[t],
         NEW q \in Request, AddTorrent(q), Route(q) \notin engine
  PROVE  Allocation = 0 \/ Bytes(engine \cup {Route(q)}) <= Allocation
<1>1. PICK r \in Request : Lone(r, {"stream"})
  BY DEF Alone, Lone
<1>2. At(q, "add") /\ Route(q) \in Torrent
  BY Fields, ConstantsAssumption DEF AddTorrent, Route
<1>3. q = r
  BY <1>1, <1>2 DEF OrphanInv, GuestsOf, Guest, GuestPC, At
<1>4. PICK t : t = Route(q)
  OBVIOUS
<1>5. Room(Incoming[t])
  BY <1>1, <1>2, <1>3, <1>4 DEF BudgetInv
<1>6. IsFiniteSet(engine) /\ IsFiniteSet(engine \cup {t})
  <2>1. IsFiniteSet(engine)
    BY RoutesFinite, FS_Subset DEF BudgetInv
  <2> QED
    BY <2>1, FS_AddElement
<1>7. Bytes(engine) \in Nat
  BY <1>6, BytesSplit DEF TypeOK
<1>8. Bytes(engine \cup {t}) = Size[t] + Bytes(engine)
  <2>1. (engine \cup {t}) \ {t} = engine /\ engine \cup {t} \subseteq Torrent
    BY <1>2, <1>4 DEF TypeOK
  <2> QED
    BY <1>6, <2>1, BytesSplit
<1>9. Size[t] \in Nat /\ Incoming[t] \in Nat /\ Size[t] <= Incoming[t] /\ Allocation \in Nat
  BY <1>2, <1>4, ConstantsAssumption DEF TypeOK, Load, Allocation
<1> QED
  BY <1>4, <1>5, <1>7, <1>8, <1>9 DEF Room, CapTripped

LEMMA StepBudget ==
  ASSUME TypeOK, OrphanInv, BudgetInv, [Next]_vars
  PROVE  [Budget!Next]_<<engine, Cap>>
<1> PICK cap : cap = Cap
  OBVIOUS
<1>1. Cap' = cap
  BY LoadSame DEF Cap, Alone, Allocation, May
<1>2. ASSUME NEW q \in Request, AddTorrent(q), Route(q) \notin engine PROVE Budget!Next
  <2>1. PICK t \in Torrent : t = Route(q)
    BY Fields, ConstantsAssumption DEF Route
  <2>2. engine' = engine \cup {t} /\ t \notin engine
    BY <1>2, <2>1 DEF AddTorrent
  <2>3. Budget!Fits(engine \cup {t})
    BY <1>2, <2>1, AddedFits, BudgetTotal DEF Budget!Fits, Cap
  <2> QED
    BY <1>1, <2>2, <2>3 DEF Budget!Next, Budget!Admit
<1>3. ASSUME NEW q \in Request, AddTorrent(q), Route(q) \in engine PROVE engine' = engine
  BY <1>3 DEF AddTorrent
<1>4. ASSUME NEW t \in Torrent, engine' = engine \ {t}, t \in engine PROVE Budget!Next
  BY <1>1, <1>4 DEF Budget!Next, Budget!Discard
<1> QED
  BY <1>1, <1>2, <1>3, <1>4, EngineSteps

LEMMA InitBudget ==
  ASSUME Init PROVE BudgetInv /\ Budget!Init
<1>1. \A r \in Request : ~At(r, "add") /\ ~At(r, "sample")
  BY NoCallFields DEF Init, At
<1>2. managed \subseteq Source /\ Allocation \in Nat /\ engine \subseteq Torrent
  BY InitType, ConstantsAssumption DEF TypeOK, Load, Allocation
<1> QED
  BY <1>1, <1>2 DEF Init, BudgetInv, Budget!Init, Routes, Cap

\* Prepare, PrepareSeason, Manage and the retention job next to any number of
\* viewers implement the budget of ADR-0004: what the engine holds changes one
\* torrent at a time and one that would overflow the Allocation is refused.
THEOREM AdmissionImplementsBudget == Spec => BudgetSpec
<1>1. Init => TypeOK /\ OrphanInv /\ BudgetInv /\ Budget!Init
  BY InitType, InitTends, InitBudget
<1>2. TypeOK /\ OrphanInv /\ [Next]_vars => OrphanInv'
  BY NextTends
<1>3. TypeOK /\ OrphanInv /\ BudgetInv /\ [Next]_vars => BudgetInv'
  BY NextBudget
<1>4. TypeOK /\ OrphanInv /\ BudgetInv /\ [Next]_vars
        => [Budget!Next]_<<engine, Cap>>
  BY StepBudget
<1> QED
  BY <1>1, <1>2, <1>3, <1>4, TypeCorrect, PTL DEF Spec, BudgetSpec, Budget!Spec

-----------------------------------------------------------------------------
(* The mutexes.  Prepare takes the mutex of its source and then the one of   *)
(* the stream, PrepareSeason the one of its season, a stream its own.        *)

\* Where a call that holds or takes an outer mutex can be.
PreparePC == {"prepare", "adopt", "adopted", "inspect", "select", "save", "survey", "sample", "evict",
              "forget", "delete", "add", "files", "apply", "record"}
SeasonPC == {"season", "survey", "sample", "evict", "forget", "delete", "add", "files", "apply", "rewrite"}

Nested(r) ==
    /\ call[r].op = "prepare" => call[r].pc \in PreparePC
    /\ call[r].op = "season" => call[r].pc \in SeasonPC

HoldsStream(r) == call[r].pc \in {"select", "save"}
HoldsPrepare(r) == call[r].op = "prepare" /\ call[r].pc \notin {"idle", "prepare"}
HoldsSeason(r) == call[r].op = "season" /\ call[r].pc \notin {"idle", "season"}

\* Every mutex has one holder at a time.
HoldSame(q, r) ==
    \/ HoldsStream(q) /\ HoldsStream(r) /\ Route(q) = Route(r)
    \/ HoldsPrepare(q) /\ HoldsPrepare(r) /\ call[q].source = call[r].source
    \/ HoldsSeason(q) /\ HoldsSeason(r) /\ Route(q) = Route(r)
HeldOnce == \A q, r \in Request : HoldSame(q, r) => q = r

\* A call that stands before a mutex somebody holds.
Waits(r) ==
    \/ At(r, "inspect") /\ StreamLocked(Route(r))
    \/ At(r, "prepare") /\ PrepareLocked(call[r].source)
    \/ At(r, "season") /\ SeasonLocked(Route(r))

\* When calls wait for mutexes, a call that waits for none is on its way.
NoWaitCycle == (\E r \in Request : Waits(r)) => \E q \in Request : InFlight(q) /\ ~Waits(q)

MutexSafe == HeldOnce /\ NoWaitCycle

MutexInv == HeldOnce /\ \A r \in Request : Nested(r)

\* A step of one call takes a mutex only when nobody holds it.
LEMMA MutexStep ==
  ASSUME MutexInv, NEW r \in Request, Others(r), Nested(r)',
         HoldsStream(r)' => call'[r].source = call[r].source /\ (HoldsStream(r) \/ ~StreamLocked(Route(r))),
         HoldsPrepare(r)' => /\ call'[r].source = call[r].source
                             /\ HoldsPrepare(r) \/ ~PrepareLocked(call[r].source),
         HoldsSeason(r)' => call'[r].source = call[r].source /\ (HoldsSeason(r) \/ ~SeasonLocked(Route(r)))
  PROVE  MutexInv'
<1>1. \A q \in Request : Nested(q)'
  BY DEF MutexInv, Nested, Others
<1>2. ASSUME NEW q \in Request, q # r PROVE call'[q] = call[q]
  BY <1>2 DEF Others
<1>3. ASSUME NEW q \in Request, q # r PROVE ~HoldSame(q, r)' /\ ~HoldSame(r, q)'
  <2>1. ~(HoldsStream(q)' /\ HoldsStream(r)' /\ Route(q)' = Route(r)')
    BY <1>2, <1>3 DEF HoldsStream, StreamLocked, Route, MutexInv, HeldOnce, HoldSame
  <2>2. ~(HoldsPrepare(q)' /\ HoldsPrepare(r)' /\ call'[q].source = call'[r].source)
    BY <1>2, <1>3 DEF HoldsPrepare, PrepareLocked, MutexInv, HeldOnce, HoldSame
  <2>3. ~(HoldsSeason(q)' /\ HoldsSeason(r)' /\ Route(q)' = Route(r)')
    BY <1>2, <1>3 DEF HoldsSeason, SeasonLocked, Route, MutexInv, HeldOnce, HoldSame
  <2> QED
    BY <2>1, <2>2, <2>3 DEF HoldSame
<1>4. ASSUME NEW q \in Request, NEW p \in Request, q # r, p # r, HoldSame(q, p)' PROVE q = p
  <2>1. call'[q] = call[q] /\ call'[p] = call[p]
    BY <1>2, <1>4
  <2> QED
    BY <1>4, <2>1 DEF MutexInv, HeldOnce, HoldSame, HoldsStream, HoldsPrepare, HoldsSeason, Route
<1>5. HeldOnce'
  BY <1>3, <1>4 DEF HeldOnce
<1> QED
  BY <1>1, <1>5 DEF MutexInv

\* A call that ends or begins holds nothing.
LEMMA MutexFree ==
  ASSUME MutexInv, NEW r \in Request, Others(r), call'[r].pc \notin {"select", "save"},
         call'[r].op = "prepare" => call'[r].pc = "prepare",
         call'[r].op = "season" => call'[r].pc = "season"
  PROVE  MutexInv'
<1>1. Nested(r)' /\ ~HoldsStream(r)' /\ ~HoldsPrepare(r)' /\ ~HoldsSeason(r)'
  BY DEF Nested, PreparePC, SeasonPC, HoldsStream, HoldsPrepare, HoldsSeason
<1> QED
  BY <1>1, MutexStep

LEMMA MutexEnds == ASSUME MutexInv, NEW r \in Request, Ends(r) PROVE MutexInv'
BY MutexFree, NoCallFields DEF Ends

\* A call that goes on past its mutexes keeps those it has and takes no other.
LEMMA MutexMoves ==
  ASSUME MutexInv, NEW r \in Request, Others(r),
         call'[r].op = call[r].op, call'[r].source = call[r].source,
         call[r].pc \notin {"idle", "prepare", "season"}, Nested(r) => Nested(r)',
         call'[r].pc \in {"select", "save"} => call[r].pc \in {"select", "save"}
  PROVE  MutexInv'
<1>1. Nested(r)'
  BY DEF MutexInv
<1> QED
  BY <1>1, MutexStep DEF HoldsStream, HoldsPrepare, HoldsSeason

LEMMA StartMutex == ASSUME TypeOK, MutexInv, NEW r \in Request, Start(r) PROVE MutexInv'
<1>1. ASSUME NEW op, NEW pc, NEW s, Begin(r, op, pc, s), pc \notin {"select", "save"},
             op = "prepare" => pc = "prepare", op = "season" => pc = "season"
      PROVE  MutexInv'
  BY <1>1, BeginEffect, MutexFree DEF Begins
<1>2. ASSUME NEW s, Acquire(r, s) PROVE MutexInv'
  BY <1>2, AcquireEffect, MutexFree DEF Begins
<1>3. CASE ListDownloads(r)
  BY <1>3, PollEffect, MutexFree
<1>4. ASSUME NEW s, Remove(r, s) PROVE MutexInv'
  BY <1>4, RemoveEffect, MutexFree DEF Begins
<1> QED
  BY <1>1, <1>2, <1>3, <1>4 DEF Start, StartRetention, StartPrepare, StartSeason, Toggle

\* The steps that take a mutex.
LEMMA TakeMutex ==
  ASSUME TypeOK, MutexInv, NEW r \in Request, Inspect(r) \/ FindDownload(r) \/ FindSeason(r)
  PROVE  MutexInv'
<1>1. CASE Inspect(r)
  <2>1. CASE Continues(r, "select")
    <3>1. At(r, "inspect") /\ ~StreamLocked(Route(r)) /\ Nested(r)
      BY <1>1 DEF Inspect, MutexInv
    <3>2. Nested(r)' /\ (HoldsPrepare(r)' => HoldsPrepare(r)) /\ ~HoldsSeason(r)'
      BY <2>1, <3>1 DEF Continues, Nested, At, PreparePC, SeasonPC, HoldsPrepare, HoldsSeason
    <3> QED
      BY <2>1, <3>1, <3>2, MutexStep DEF Continues
  <2>2. CASE call[r].op = "stream" /\ Continues(r, "lease")
    <3>1. At(r, "inspect") /\ Nested(r)'
      BY <1>1, <2>2 DEF Inspect, Continues, Nested
    <3> QED
      BY <2>2, <3>1, MutexMoves DEF Continues, At
  <2> QED
    BY <1>1, <2>1, <2>2, InspectEffect, MutexEnds
<1>2. CASE FindDownload(r)
  <2>1. CASE /\ Others(r) /\ call'[r].op = "prepare" /\ call'[r].source = call[r].source
             /\ call'[r].pc \in {"adopt", "inspect"}
    <3>1. ~PrepareLocked(call[r].source)
      BY <1>2 DEF FindDownload
    <3>2. Nested(r)' /\ ~HoldsStream(r)' /\ ~HoldsSeason(r)'
      BY <2>1 DEF Nested, PreparePC, HoldsStream, HoldsSeason
    <3> QED
      BY <2>1, <3>1, <3>2, MutexStep
  <2> QED
    BY <1>2, <2>1, FindEffect, MutexEnds
<1>3. CASE FindSeason(r)
  <2>1. PICK pc \in {"files", "add", "survey"} : Goto(r, pc)
    BY <1>3 DEF FindSeason, AdmissionPC
  <2>2. At(r, "season") /\ ~SeasonLocked(Route(r)) /\ Nested(r) /\ Continues(r, pc)
    BY <1>3, <2>1, GotoEffect DEF FindSeason, MutexInv
  <2>3. Nested(r)' /\ ~HoldsStream(r)' /\ (HoldsPrepare(r)' => HoldsPrepare(r))
    BY <2>2 DEF Continues, Nested, At, PreparePC, SeasonPC, HoldsStream, HoldsPrepare
  <2> QED
    BY <2>2, <2>3, MutexStep DEF Continues
<1> QED
  BY <1>1, <1>2, <1>3

LEMMA StepMutex == ASSUME TypeOK, MutexInv, NEW r \in Request, Step(r) PROVE MutexInv'
<1>1. ASSUME NEW pc, Continues(r, pc), call[r].pc \notin {"idle", "prepare", "season"},
             Nested(r) => Nested(r)',
             pc \in {"select", "save"} => call[r].pc \in {"select", "save"}
      PROVE  MutexInv'
  BY <1>1, MutexMoves DEF Continues
<1>2. CASE SetLease(r) \/ SaveManaged(r) \/ SaveAdopted(r) \/ AddTorrent(r) \/ RecordDownload(r)
           \/ EngineRemove(r) \/ Forgotten(r) \/ Written(r)
  <2>1. CASE Return(r)
    BY <2>1, ReturnEffect, MutexEnds
  <2>2. PICK pc : \/ Return(r)
                  \/ /\ Goto(r, pc)
                     /\ \/ At(r, "lease") /\ pc = "streaming"
                        \/ At(r, "save") /\ pc = "lease" /\ call[r].op = "stream"
                        \/ At(r, "adopted") /\ pc = "inspect"
                        \/ At(r, "add") /\ pc = "files"
                        \/ At(r, "evict") /\ pc = "forget"
                        \/ At(r, "delete") /\ pc = "prepare" /\ call[r].op = "retry"
                        \/ At(r, "delete") /\ pc = "survey"
    BY <1>2 DEF SetLease, SaveManaged, SaveAdopted, AddTorrent, RecordDownload, EngineRemove, Forgotten, Written
  <2>3. CASE ~Return(r)
    <3>1. Continues(r, pc)
      BY <2>2, <2>3, GotoEffect
    <3>2. Nested(r) => Nested(r)'
      BY <2>2, <2>3, <3>1 DEF Nested, Continues, At, PreparePC, SeasonPC
    <3> QED
      BY <1>1, <2>2, <2>3, <3>1, <3>2 DEF At
  <2> QED
    BY <2>1, <2>3
<1>3. CASE DeleteRow(r) \/ RefreshRow(r) \/ RewriteRow(r)
  <2>1. call[r].pc \in {"delete", "refresh", "rewrite"} /\ (Ends(r) \/ Continues(r, call[r].pc))
    BY <1>3, DeleteEffect, RefreshEffect, RewriteEffect DEF DeleteRow, RefreshRow, RewriteRow, At, Drops
  <2>2. Continues(r, call[r].pc) => (Nested(r) => Nested(r)')
    BY DEF Continues, Nested
  <2> QED
    BY <1>1, <2>1, <2>2, MutexEnds
<1>4. CASE SelectFiles(r) \/ AdoptSibling(r) \/ ListFiles(r) \/ ListForget(r) \/ ListRoute(r)
  <2>1. \/ Ends(r)
        \/ \E pc : /\ Continues(r, pc)
                   /\ \/ At(r, "select") /\ pc = "save"
                      \/ At(r, "apply") /\ pc = "rewrite" /\ call[r].op = "season"
                      \/ At(r, "apply") /\ pc = "record" /\ call[r].op # "season"
                      \/ At(r, "adopt") /\ pc \in {"adopted", "survey", "add"}
                      \/ At(r, "files") /\ pc = "apply"
                      \/ At(r, "forget") /\ pc = "delete"
                      \/ At(r, "list") /\ pc = "rewrite"
    <3>1. CASE SelectFiles(r)
      BY <3>1, SelectEffect
    <3>2. CASE AdoptSibling(r)
      BY <3>2, AdoptEffect DEF AdoptSibling, AdmissionPC
    <3>3. CASE ListFiles(r) \/ ListForget(r) \/ ListRoute(r)
      BY <3>3, FilesEffect, ForgetEffect, RouteEffect DEF ListFiles, ListForget, ListRoute
    <3> QED
      BY <1>4, <3>1, <3>2, <3>3
  <2>2. ASSUME NEW pc, Continues(r, pc),
               \/ At(r, "select") /\ pc = "save"
               \/ At(r, "apply") /\ pc = "rewrite" /\ call[r].op = "season"
               \/ At(r, "apply") /\ pc = "record" /\ call[r].op # "season"
               \/ At(r, "adopt") /\ pc \in {"adopted", "survey", "add"}
               \/ At(r, "files") /\ pc = "apply"
               \/ At(r, "forget") /\ pc = "delete"
               \/ At(r, "list") /\ pc = "rewrite"
        PROVE  MutexInv'
    <3>1. Nested(r) => Nested(r)'
      BY <2>2 DEF Nested, Continues, At, PreparePC, SeasonPC
    <3> QED
      BY <1>1, <2>2, <3>1 DEF At
  <2> QED
    BY <2>1, <2>2, MutexEnds
<1>5. CASE SurveyRows(r) \/ SampleRoute(r) \/ Choose(r)
  <2>1. At(r, "survey") \/ At(r, "sample")
    BY <1>5, SurveyEffect, SampleEffect, ChooseEffect
  <2>2. ASSUME Others(r), call'[r].op = call[r].op, call'[r].source = call[r].source,
               call'[r].pc \in {"sample", "add", "evict"}
        PROVE  MutexInv'
    <3>1. Nested(r) => Nested(r)'
      BY <2>1, <2>2 DEF Nested, At, PreparePC, SeasonPC
    <3> QED
      BY <2>1, <2>2, <3>1, MutexMoves DEF At
  <2> QED
    BY <1>5, <2>2, SurveyEffect, SampleEffect, ChooseEffect, MutexEnds DEF Continues
<1> QED
  BY <1>2, <1>3, <1>4, <1>5, TakeMutex DEF Step

LEMMA NextMutex == ASSUME TypeOK, MutexInv, [Next]_vars PROVE MutexInv'
<1>1. ASSUME NEW r \in Request, Release(r) \/ Fail(r) PROVE MutexInv'
  BY <1>1, ReturnEffect, MutexEnds DEF Release, Fail
<1>2. CASE call' = call
  BY <1>2 DEF MutexInv, HeldOnce, HoldSame, Nested, HoldsStream, HoldsPrepare, HoldsSeason, Route
<1>3. CASE Crash
  BY <1>3, NoCallFields DEF Crash, MutexInv, HeldOnce, HoldSame, Nested, HoldsStream, HoldsPrepare, HoldsSeason
<1> QED
  BY <1>1, <1>2, <1>3, StartMutex, StepMutex DEF Next, FinishFile, Vanish, vars

LEMMA InitMutex == Init => MutexInv
BY NoCallFields DEF Init, MutexInv, HeldOnce, HoldSame, Nested, HoldsStream, HoldsPrepare, HoldsSeason

\* The holder of a stream mutex waits for nothing; the holder of an outer mutex
\* waits at most for a stream mutex.
LEMMA MutexOrder == ASSUME MutexInv PROVE NoWaitCycle
<1>1. ASSUME NEW r \in Request, At(r, "inspect"), StreamLocked(Route(r))
      PROVE  \E q \in Request : InFlight(q) /\ ~Waits(q)
  BY <1>1 DEF StreamLocked, InFlight, Waits, At
<1>2. ASSUME NEW r \in Request, At(r, "prepare"), PrepareLocked(call[r].source)
      PROVE  \E q \in Request : InFlight(q) /\ ~Waits(q)
  <2>1. PICK q \in Request : call[q].op = "prepare" /\ call[q].pc \notin {"idle", "prepare"}
    BY <1>2 DEF PrepareLocked
  <2>2. InFlight(q) /\ ~At(q, "prepare") /\ ~At(q, "season")
    BY <2>1 DEF MutexInv, Nested, PreparePC, InFlight, At
  <2> QED
    BY <1>1, <2>2 DEF Waits
<1>3. ASSUME NEW r \in Request, At(r, "season"), SeasonLocked(Route(r))
      PROVE  \E q \in Request : InFlight(q) /\ ~Waits(q)
  <2>1. PICK q \in Request : call[q].op = "season" /\ call[q].pc \notin {"idle", "season"}
    BY <1>3 DEF SeasonLocked
  <2>2. InFlight(q) /\ ~Waits(q)
    BY <2>1 DEF MutexInv, Nested, SeasonPC, InFlight, Waits, At
  <2> QED
    BY <2>2
<1> QED
  BY <1>1, <1>2, <1>3 DEF NoWaitCycle, Waits

\* One goroutine at a time is past each of the mutexes of Prepare, PrepareSeason and
\* prepareManagedDownload, and nesting them never closes a circle: among the calls
\* that wait there is always one on its way that waits for no mutex.
THEOREM MutexesNeverDeadlock == Spec => []MutexSafe
<1>1. Init => TypeOK /\ MutexInv
  BY InitType, InitMutex
<1>2. TypeOK /\ MutexInv /\ [Next]_vars => MutexInv'
  BY NextMutex
<1>3. MutexInv => MutexSafe
  BY MutexOrder DEF MutexInv, MutexSafe
<1> QED
  BY <1>1, <1>2, <1>3, TypeCorrect, PTL DEF Spec
=============================================================================
