--------------------------------- MODULE Psi ---------------------------------
(***************************************************************************)
(* Psi (psi.cpp): the tables of a programme, from the sections of its      *)
(* stream or from the metadata of a recording, and what its controller is  *)
(* told of them.  A controller starts one Psi more than once; sections     *)
(* come on the platform's thread; a thread of Psi's own handles events.    *)
(* Each of them keeps mPsiMutex, so each is one step.                      *)
(*                                                                         *)
(* A programme map (PMT) is its version and its "content": the PIDs of its *)
(* audio and video, and the rest.  All maps here have one length.          *)
(***************************************************************************)
EXTENDS Naturals, Sequences

CONSTANTS Versions,                     \* of a PMT: 32, they wrap
          kAppMaxSectFiltReadAttempts,
          MaxStarts,                    \* bound: calls of psiStart
          MaxAired                      \* bound: changes of what is on the air

ASSUME PsiAssumption ==
    /\ Versions \in Nat \ {0}
    /\ kAppMaxSectFiltReadAttempts \in Nat
    /\ MaxStarts \in Nat /\ MaxAired \in Nat

\* "a2" has the PIDs of "a" and other descriptors; "silent" has neither audio
\* nor video; "file" is that of a recording.
Contents == {"a", "a2", "b", "silent", "file"}
PidsOf(content) == IF content = "a2" THEN "a" ELSE content

NoContent == "none"
NoMap == [version |-> 0, content |-> NoContent]

VARIABLES psiState,      \* mState
          mPmtPid,       \* TRUE once the PAT told the PID of the PMT
          filter,        \* what the section filter is set for, or "closed"
          mPSecFilterBuf,   \* the section to be parsed
          psiQueue,      \* psiThreadEventQueue
          mPmt,          \* the PMT that was parsed
          pidTable,      \* its mTsParams.pidTable has a PID, of any time
          mCurrentPMTCRC,
          mSectFileReadAttempts,
          psiThread,     \* "none", "runs", "deleting" or "ended"
          source,        \* what it was last started for
          known,         \* the content its controller last read, told to
          awaited,       \* nothing was told since it was started
          onAir,         \* the PMT in the stream
          listed,        \* the PAT in the stream has the programme
          lapses,        \* known ways to lose the tables, that were taken
          aired, starts  \* counted up to their bounds

tables == <<mPmt, pidTable, mCurrentPMTCRC>>
stream == <<onAir, listed, aired>>
client == <<source, known, starts>>
psiVars == <<psiState, mPmtPid, filter, mPSecFilterBuf, psiQueue, tables,
             mSectFileReadAttempts, psiThread, client, awaited, stream, lapses>>

PsiInit ==
    /\ psiState = "idle" /\ mPmtPid = FALSE
    /\ filter = "closed" /\ mPSecFilterBuf = NoMap
    /\ psiQueue = <<>>
    /\ mPmt = NoMap /\ pidTable = FALSE /\ mCurrentPMTCRC = NoContent
    /\ mSectFileReadAttempts = 0
    /\ psiThread = "none"
    /\ source = NoContent /\ known = NoContent /\ awaited = FALSE /\ starts = 0
    /\ onAir = [version |-> 0, content |-> "a"] /\ listed = TRUE /\ aired = 0
    /\ lapses = {}

\* crc32 from the PCR PID on, which runs over the CRC_32 that ends the section
\* and so comes to a value of the header before it: its body is cancelled.
crc(map) == map.version

Lapse(kind, on) == lapses' = IF on THEN lapses \cup {kind} ELSE lapses

psiCallback(state) ==
    /\ awaited' = FALSE
    /\ known' = IF state \in {"ready", "update"} THEN mPmt.content ELSE known
    /\ UNCHANGED <<source, starts>>

------------------------------------------------------------------------------
(* The controller *)

psiStop == filter' = "closed"

\* Mutant: the filter of the start before stays open.
RestartOverFilter ==
    /\ mPSecFilterBuf' = NoMap
    /\ awaited' = TRUE
    /\ starts < MaxStarts /\ starts' = starts + 1
    /\ psiThread \in {"none", "runs"} /\ psiThread' = "runs"
    /\ Lapse("restart", \E i \in DOMAIN psiQueue : psiQueue[i] # "section")
    /\ UNCHANGED <<filter, psiState, mPmtPid, mCurrentPMTCRC, mSectFileReadAttempts,
                   known, stream>>

\* freePsi and freePmtInfo.  The events of the start before are left in the
\* queue, the PIDs of pidTable in their place.
Restart ==
    /\ psiStop
    /\ mPSecFilterBuf' = NoMap
    /\ awaited' = TRUE
    /\ starts < MaxStarts /\ starts' = starts + 1
    /\ psiThread \in {"none", "runs"} /\ psiThread' = "runs"
    /\ Lapse("restart", \E i \in DOMAIN psiQueue : psiQueue[i] # "section")
    /\ UNCHANGED <<psiState, mPmtPid, mCurrentPMTCRC, mSectFileReadAttempts, known, stream>>

psiStart ==
    /\ Restart
    /\ source' = "live"
    /\ mPmt' = NoMap
    /\ psiQueue' = Append(psiQueue, "start")
    /\ UNCHANGED pidTable

psiStartFile ==
    /\ Restart
    /\ source' = "file"
    /\ mPmt' = [version |-> 0, content |-> "file"]
    /\ psiQueue' = Append(psiQueue, "fileReady")
    /\ UNCHANGED pidTable

\* The map of a recording at another box, asked of its source.
ParsePsiRemoteSource ==
    /\ Restart
    /\ source' = "file"
    /\ mPmt' = [version |-> 0, content |-> "file"]
    /\ pidTable' = TRUE
    /\ psiQueue' = Append(psiQueue, "fileReady")

\* The metadata cannot be read, and psiStart says so.
psiStartFails ==
    /\ psiThread \in {"none", "runs"}
    /\ starts < MaxStarts /\ starts' = starts + 1
    /\ psiStop /\ mPSecFilterBuf' = NoMap
    /\ psiThread' = "runs"
    /\ mPmt' = NoMap
    /\ source' = NoContent
    /\ awaited' = FALSE
    /\ Lapse("restart", \E i \in DOMAIN psiQueue : psiQueue[i] # "section")
    /\ UNCHANGED <<psiState, mPmtPid, psiQueue, pidTable, mCurrentPMTCRC,
                   mSectFileReadAttempts, known, stream>>

\* ~Psi.  From now on no filter is started; the thread is waited for.
Delete ==
    /\ psiThread = "runs"
    /\ psiThread' = "deleting"
    /\ psiQueue' = Append(psiQueue, "exit")
    /\ awaited' = FALSE
    /\ UNCHANGED <<psiState, mPmtPid, filter, mPSecFilterBuf, tables,
                   mSectFileReadAttempts, client, stream, lapses>>

------------------------------------------------------------------------------
(* The section filter *)

\* A filter that is still open is forgotten.
startSectionFilter(table, ok) ==
    IF psiThread = "deleting"
      THEN UNCHANGED <<filter, lapses>>
      ELSE /\ filter' = IF ok THEN table ELSE "closed"
           /\ Lapse("filter", filter # "closed")

\* setCallbackData: a section of the table the filter is for, looked at if it is
\* the one that is waited for.
SectionData(table) == psiThread \in {"runs", "deleting"} /\ filter = table

PatSection ==
    /\ SectionData("PAT")
    /\ psiState = "waitForPat"
    /\ psiState' = "processingPAT"
    /\ psiStop
    /\ mPSecFilterBuf' = [version |-> 0, content |-> IF listed THEN "listed" ELSE "others"]
    /\ psiQueue' = Append(psiQueue, "section")
    /\ UNCHANGED <<mPmtPid, tables, mSectFileReadAttempts, psiThread, client, awaited,
                   stream, lapses>>

PmtSection ==
    /\ SectionData("PMT")
    /\ psiState = "waitForPmt"
    /\ psiState' = "processingPMT"
    /\ psiStop
    /\ mPSecFilterBuf' = onAir
    /\ psiQueue' = Append(psiQueue, "section")
    /\ UNCHANGED <<mPmtPid, tables, mSectFileReadAttempts, psiThread, client, awaited,
                   stream, lapses>>

\* Of another version.  The one that was first told is the one it is compared to.
PmtUpdateSection ==
    /\ SectionData("PMT update")
    /\ psiState = "waitForUpdate"
    /\ onAir.version # mPmt.version
    /\ psiStop
    /\ IF crc(onAir) # mCurrentPMTCRC
         THEN /\ psiState' = "processingPMTUpdate"
              /\ mPSecFilterBuf' = onAir
              /\ psiQueue' = Append(psiQueue, "section")
              /\ UNCHANGED <<mPmt, lapses>>
         ELSE /\ psiState' = "updatePMTRevision"
              /\ mPmt' = [mPmt EXCEPT !.version = onAir.version]
              /\ psiQueue' = Append(psiQueue, "revision")
              /\ Lapse("crc", mPmt.content # onAir.content)
              /\ UNCHANGED mPSecFilterBuf
    /\ UNCHANGED <<mPmtPid, pidTable, mCurrentPMTCRC, mSectFileReadAttempts, psiThread,
                   client, awaited, stream>>

------------------------------------------------------------------------------
(* The thread of Psi *)

Event(e) ==
    /\ psiThread \in {"runs", "deleting"}
    /\ psiQueue # <<>> /\ Head(psiQueue) = e

Taken == psiQueue' = Tail(psiQueue)

\* kPsiStartEvent
StartPsi ==
    /\ Event("start") /\ Taken
    /\ mPmtPid' = FALSE
    /\ psiState' = "waitForPat"
    /\ \E ok \in BOOLEAN :
         /\ startSectionFilter("PAT", ok)
         /\ IF ok THEN UNCHANGED <<client, awaited>> ELSE psiCallback("error")
    /\ UNCHANGED <<mPSecFilterBuf, tables, mSectFileReadAttempts, psiThread, stream>>

PATReady ==
    /\ Event("PATReady") /\ Taken
    /\ psiState' = "waitForPmt"
    /\ \E ok \in BOOLEAN :
         /\ startSectionFilter(IF mPmtPid THEN "PMT" ELSE "PAT", ok)
         /\ IF ok THEN UNCHANGED <<client, awaited>> ELSE psiCallback("error")
    /\ UNCHANGED <<mPmtPid, mPSecFilterBuf, tables, mSectFileReadAttempts, psiThread, stream>>

\* That the filter started is not looked at: updates are lost if it did not.
WaitForUpdate ==
    /\ psiState' = "waitForUpdate"
    /\ \/ startSectionFilter("PMT update", TRUE)
       \/ psiStop /\ lapses' = lapses \cup {"update"}

PMTReady ==
    /\ Event("PMTReady") /\ Taken
    /\ psiCallback("ready")
    /\ WaitForUpdate
    /\ UNCHANGED <<mPmtPid, mPSecFilterBuf, tables, mSectFileReadAttempts, psiThread, stream>>

Update ==
    /\ Event("update") /\ Taken
    /\ psiCallback("update")
    /\ WaitForUpdate
    /\ UNCHANGED <<mPmtPid, mPSecFilterBuf, tables, mSectFileReadAttempts, psiThread, stream>>

RevUpdate ==
    /\ Event("revision") /\ Taken
    /\ psiCallback("revision")
    /\ WaitForUpdate
    /\ UNCHANGED <<mPmtPid, mPSecFilterBuf, tables, mSectFileReadAttempts, psiThread, stream>>

FileSrcPMTReady ==
    /\ Event("fileReady") /\ Taken
    /\ psiCallback("ready")
    /\ UNCHANGED <<psiState, mPmtPid, filter, mPSecFilterBuf, tables, mSectFileReadAttempts,
                   psiThread, stream, lapses>>

\* Mutant: the wait for a PMT has none.
WaitForPatHasEnd == psiState = "waitForPat"

\* The wait of the thread for its next event has an end.
WaitHasEnd == psiState \in {"waitForPat", "waitForPmt"}

\* Five seconds in a wait for a table.
TimeOut ==
    /\ psiThread = "runs" /\ psiQueue = <<>>
    /\ WaitHasEnd
    /\ awaited
    /\ psiCallback("timeOut")
    /\ UNCHANGED <<psiState, mPmtPid, filter, mPSecFilterBuf, psiQueue, tables,
                   mSectFileReadAttempts, psiThread, stream, lapses>>

Exit ==
    /\ Event("exit") /\ Taken
    /\ psiThread' = "ended"
    /\ psiStop /\ mPSecFilterBuf' = NoMap /\ mPmt' = NoMap
    /\ UNCHANGED <<psiState, mPmtPid, pidTable, mCurrentPMTCRC, mSectFileReadAttempts,
                   client, awaited, stream, lapses>>

------------------------------------------------------------------------------
(* parseSectionFilterCallBackData *)

\* The section was freed by a start in between.
SectionIsGone ==
    /\ Event("section") /\ Taken
    /\ mPSecFilterBuf = NoMap
    /\ psiCallback("error")
    /\ UNCHANGED <<psiState, mPmtPid, filter, mPSecFilterBuf, tables, mSectFileReadAttempts,
                   psiThread, stream, lapses>>

collectPatData(section) == section.content = "listed"

\* The programme is looked for again until the attempts are used up.
ParsePat ==
    /\ Event("section") /\ psiState = "processingPAT" /\ mPSecFilterBuf # NoMap
    /\ mPSecFilterBuf' = NoMap
    /\ \/ /\ collectPatData(mPSecFilterBuf)
          /\ mPmtPid' = TRUE
          /\ psiState' = "waitForPmt"
          /\ mSectFileReadAttempts' = 0
          /\ psiQueue' = Append(Tail(psiQueue), "PATReady")
          /\ UNCHANGED <<client, awaited>>
       \/ /\ ~collectPatData(mPSecFilterBuf)
          /\ UNCHANGED mPmtPid
          /\ IF mSectFileReadAttempts + 1 < kAppMaxSectFiltReadAttempts
               THEN /\ mSectFileReadAttempts' = mSectFileReadAttempts + 1
                    /\ psiState' = "waitForPat"
                    /\ psiQueue' = Append(Tail(psiQueue), "start")
                    /\ UNCHANGED <<client, awaited>>
               ELSE /\ mSectFileReadAttempts' = 0
                    /\ psiState' = "idle"
                    /\ Taken
                    /\ psiCallback("error")
    /\ UNCHANGED <<filter, tables, psiThread, stream, lapses>>

\* collectPmtData: refused without audio and video, unless a map before had some.
IsCollected(map, table) == map.content # "silent" \/ table

MapRead(table) ==
    IF IsCollected(mPSecFilterBuf, table)
      THEN mPSecFilterBuf
      ELSE [mPSecFilterBuf EXCEPT !.content = NoContent]

\* Refused, the PMT is waited for once more, from the first wait on: what was
\* known is told again as ready, not as an update.
PmtRefused ==
    /\ Taken
    /\ psiCallback("error")
    /\ UNCHANGED mCurrentPMTCRC
    /\ IF mSectFileReadAttempts + 1 > kAppMaxSectFiltReadAttempts
         THEN /\ psiState' = "idle" /\ mSectFileReadAttempts' = 0
              /\ UNCHANGED <<filter, lapses>>
         ELSE /\ psiState' = "waitForPmt"
              /\ mSectFileReadAttempts' = mSectFileReadAttempts + 1
              /\ \E ok \in BOOLEAN : startSectionFilter("PMT", ok)

ParsePmt ==
    /\ Event("section") /\ psiState = "processingPMT" /\ mPSecFilterBuf # NoMap
    /\ mPSecFilterBuf' = NoMap
    /\ mPmt' = MapRead(pidTable)
    /\ pidTable' = (pidTable \/ mPSecFilterBuf.content # "silent")
    /\ IF IsCollected(mPSecFilterBuf, pidTable)
         THEN /\ psiQueue' = Append(Tail(psiQueue), "PMTReady")
              /\ mCurrentPMTCRC' = crc(mPSecFilterBuf)
              /\ mSectFileReadAttempts' = 0
              /\ Lapse("pidTable", mPSecFilterBuf.content = "silent")
              /\ UNCHANGED <<psiState, filter, client, awaited>>
         ELSE PmtRefused
    /\ UNCHANGED <<mPmtPid, psiThread, stream>>

\* Mutant: how many PIDs the lists have is compared.
PidCountsDiffer(new, old) == FALSE

\* The lists of audio and video PIDs, one by one.
PidsDiffer(new, old) == PidsOf(new.content) # PidsOf(old.content)

\* A new Pmt, whose lists of PIDs are compared to those of the one before.
ParsePmtUpdate ==
    /\ Event("section") /\ psiState = "processingPMTUpdate" /\ mPSecFilterBuf # NoMap
    /\ mPSecFilterBuf' = NoMap
    /\ mPmt' = MapRead(FALSE)
    /\ pidTable' = (mPSecFilterBuf.content # "silent")
    /\ IF IsCollected(mPSecFilterBuf, FALSE)
         THEN /\ psiQueue' = Append(Tail(psiQueue),
                   IF PidsDiffer(mPSecFilterBuf, mPmt) THEN "update" ELSE "revision")
              /\ mSectFileReadAttempts' = 0
              /\ UNCHANGED <<psiState, filter, mCurrentPMTCRC, client, awaited, lapses>>
         ELSE PmtRefused
    /\ UNCHANGED <<mPmtPid, psiThread, stream>>

psiThreadStep ==
    \/ StartPsi \/ PATReady \/ PMTReady \/ Update \/ RevUpdate \/ FileSrcPMTReady
    \/ TimeOut \/ Exit
    \/ SectionIsGone \/ ParsePat \/ ParsePmt \/ ParsePmtUpdate

------------------------------------------------------------------------------
(* The stream: the version of its PMT goes up by one at each change *)

\* The versions do not come round to one that Psi still has.
NewMapOnAir ==
    /\ aired < MaxAired /\ aired' = aired + 1
    /\ \A map \in {mPmt, mPSecFilterBuf} :
         map.content \in Contents => (onAir.version + 1) % Versions # map.version
    /\ \E content \in Contents \ {"file", onAir.content} :
         onAir' = [version |-> (onAir.version + 1) % Versions, content |-> content]
    /\ UNCHANGED <<psiState, mPmtPid, filter, mPSecFilterBuf, psiQueue, tables,
                   mSectFileReadAttempts, psiThread, client, awaited, listed, lapses>>

PatOnAirChanges ==
    /\ aired < MaxAired /\ aired' = aired + 1
    /\ listed' = ~listed
    /\ UNCHANGED <<psiState, mPmtPid, filter, mPSecFilterBuf, psiQueue, tables,
                   mSectFileReadAttempts, psiThread, client, awaited, onAir, lapses>>

\* Once the tables are lost, nothing is promised.
PsiNext ==
    /\ lapses = {}
    /\ \/ psiStart \/ psiStartFile \/ ParsePsiRemoteSource \/ psiStartFails \/ Delete
       \/ PatSection \/ PmtSection \/ PmtUpdateSection
       \/ psiThreadStep
       \/ NewMapOnAir \/ PatOnAirChanges

PsiFairness == WF_psiVars(lapses = {} /\ psiThreadStep)

PsiSpec == PsiInit /\ [][PsiNext]_psiVars /\ PsiFairness

------------------------------------------------------------------------------
(* Properties *)

PsiTypeOK ==
    /\ psiState \in {"idle", "waitForPat", "waitForPmt", "waitForUpdate", "processingPAT",
                     "processingPMT", "processingPMTUpdate", "updatePMTRevision"}
    /\ mPmtPid \in BOOLEAN
    /\ filter \in {"closed", "PAT", "PMT", "PMT update"}
    /\ mPmt \in [version : 0 .. Versions - 1, content : Contents \cup {NoContent}]
    /\ mSectFileReadAttempts \in 0 .. kAppMaxSectFiltReadAttempts
    /\ psiThread \in {"none", "runs", "deleting", "ended"}
    /\ known \in Contents \cup {NoContent}
    /\ lapses \subseteq {"restart", "filter", "crc", "update", "pidTable"}

\* At rest with a live programme, Psi either has a filter that is about to catch
\* the new map of the stream, or its controller knows the PIDs on the air; with
\* a recording it is the recording's that are known, and no filter is open
\* (psi.cpp:1147, 1408).  It is lost in four ways: the CRC of an update depends
\* on its header alone (1221), a filter that does not start again is not noticed
\* (172), a start finds events of the one before (352), PIDs of an older map
\* stand for those that are missing (1738).
TablesAreFollowed ==
    lapses = {} /\ psiQueue = <<>> /\ psiThread = "runs" /\ ~awaited =>
        /\ source = "live" /\ psiState = "waitForUpdate" =>
             /\ filter = "PMT update"
             /\ onAir.version = mPmt.version => PidsOf(known) = PidsOf(onAir.content)
        /\ source = "file" => known = "file" /\ filter = "closed"

\* Never is a filter opened while another is open, which would then be left
\* behind with a callback into a Psi that is deleted: the one that is open is
\* closed by the section it finds, a new start, or the exit of the thread
\* (psi.cpp:691, 708, 949), unless a start finds events of the one before.
NoFilterIsLeft ==
    /\ "filter" \notin lapses
    /\ lapses = {} /\ psiThread = "ended" => filter = "closed"

\* A controller that starts Psi is told something: the tables, an error or a
\* timeout, through lists without the programme, maps that are refused and
\* filters that do not start.
PsiIsAnswered == awaited ~> ~awaited \/ lapses # {}
==============================================================================
