------------------------------ MODULE Audio_proofs -----------------------------
(***************************************************************************)
(* The two parts of MCAudio, EAS audio and the screens.                    *)
(*                                                                         *)
(* EasAudio, for any number of sessions, clips and repeats, with an EAS    *)
(* client that does not call Stop while a start of the clip is on its way: *)
(* the programme in focus is silent while the clip plays, and has its      *)
(* sound when it is over.  A start of the clip is in one place at a time,  *)
(* from AudioPlayer's queue over the player's to the player's thread; a    *)
(* restart of the programme is queued when the clip has ended, and always  *)
(* before the next start.                                                  *)
(*                                                                         *)
(* Presentation and Avpm, for any number of sessions and films: what a     *)
(* controller was told is connected is shown, with the captions and the    *)
(* sound of the user.  What the threads have left to do for a session is   *)
(* in order and fits its display (Phase), one thread has it, and a focus   *)
(* is changed when the displays that trade places are closed (FocusOK); a  *)
(* layer then has one handle, and Avpm's flags tell which (LayersOK).      *)
(***************************************************************************)
EXTENDS MCAudio, SequenceTheorems, FiniteSetTheorems, TLAPS

AudioEvents == {"PrepareSource", "PlaySource", "Timer", "BufferCmplt"}
Start == "StopPrimAudioAndStartEas"
Restart == "StartPrimAudio"

\* An event is queued once, and as the last one.
Once(q, e) == \A i, j \in 1 .. Len(q) : q[i] = e /\ q[j] = e => i = j
IsLast(q, e) == \A i \in 1 .. Len(q) : q[i] = e => i = Len(q)

\* The player's thread has taken a start.
AtStart == playerAt \in {"stopaudio", "starteas"}

Starting ==
    \/ "PlaySource" \in Range(apQueue)
    \/ Start \in Range(playerQueue)
    \/ AtStart

\* One start at a time, behind every restart.
OneStart ==
    /\ "PlaySource" \in Range(apQueue) => Start \notin Range(playerQueue) /\ ~AtStart
    /\ AtStart => playerQueue = <<>>
    /\ IsLast(playerQueue, Start)
    /\ \A e \in {"PrepareSource", "PlaySource", "Timer"} : Once(apQueue, e)

\* What AudioPlayer does in each state of its client.
ClientOK ==
    /\ "PrepareSource" \in Range(apQueue) => easClient = "loading"
    /\ easClient = "loading" => currentState \in {"Idle", "Stopped", "Error"}
    /\ easClient = "loaded" => currentState = "PrepareSource"
    /\ easClient = "playing" => currentState \in {"PrepareSource", "PlaySource", "Delay"}
    /\ easClient = "stopping" => currentState = "Stopping"
    /\ easClient \in {"over", "ejecting"} => currentState \in {"Stopped", "Error"}
    /\ Starting => easClient = "playing" /\ currentState \in {"PrepareSource", "Delay"}
    /\ Starting /\ currentState = "Delay" => ~timer /\ "Timer" \notin Range(apQueue)

\* EAS audio is active from the start of a clip on, until the restart that its
\* end has queued.
FlagOK ==
    /\ EasPlays => mEasAudioActive /\ playerAt = "pop" /\ Restart \notin Range(playerQueue)
    /\ AtStart => mEasAudioActive
    /\ playerAt = "restart" => ~mEasAudioActive
    /\ mEasAudioActive => EasPlays \/ AtStart \/ Restart \in Range(playerQueue)

Started == {s \in InFocus : display[s] = "started"}

\* Who has the decoder.
DecoderOK ==
    /\ \A s \in Sessions : decodes[s] => enaAudio[s] /\ display[s] \in {"started", "incomplete"}
    /\ \A s \in Sessions : mEnaAudio[s] => enaAudio[s]
    /\ EasPlays \/ playerAt = "starteas" => \A s \in Started : ~decodes[s]
    /\ ~mEasAudioActive /\ playerAt # "restart" /\ Restart \notin Range(playerQueue) =>
         \A s \in Started : decodes[s]

IInv == TypeOK /\ OneStart /\ ClientOK /\ FlagOK /\ DecoderOK

------------------------------------------------------------------------------
(* The queues *)

LEMMA TakeFirst ==
    ASSUME NEW S, NEW q \in Seq(S), q # <<>>
    PROVE  /\ Head(q) \in S /\ Tail(q) \in Seq(S)
           /\ \A e : e \in Range(q) <=> e = Head(q) \/ e \in Range(Tail(q))
           /\ \A e : Once(q, e) => Once(Tail(q), e)
           /\ Once(q, Head(q)) => Head(q) \notin Range(Tail(q))
           /\ \A e : IsLast(q, e) => IsLast(Tail(q), e)
           /\ IsLast(q, Head(q)) => Tail(q) = <<>>
<1> DEFINE n == Len(q)
           r == Tail(q)
<1>1. n \in Nat \ {0}
  BY EmptySeq
<1>2. /\ Head(q) = q[1] /\ Head(q) \in S
      /\ r \in Seq(S) /\ Len(r) = n - 1
      /\ \A i \in 1 .. n - 1 : r[i] = q[i + 1]
  BY HeadTailProperties
<1>3. /\ Range(q) = {q[i] : i \in 1 .. n}
      /\ Range(r) = {r[i] : i \in 1 .. n - 1}
  BY <1>2, RangeEquality, ZenonT(40)
<1>4. r = <<>> <=> n = 1
  <2>1. Len(r) = 0 <=> r = <<>>
    BY <1>2, EmptySeq
  <2> HIDE DEF n, r
  <2> QED
    BY <1>1, <1>2, <2>1
<1> HIDE DEF n, r
<1>5. \A i \in 1 .. n - 1 : i + 1 \in 1 .. n
  BY <1>1
<1>6. 1 \in 1 .. n /\ \A i \in 1 .. n : i # 1 => i - 1 \in 1 .. n - 1 /\ (i - 1) + 1 = i
  BY <1>1
<1>7. \A e : e \in Range(q) <=> e = Head(q) \/ e \in Range(r)
  <2>1. ASSUME NEW e, e \in Range(q), e # Head(q) PROVE e \in Range(r)
    <3>1. PICK i \in 1 .. n : e = q[i]
      BY <1>3, <2>1
    <3>2. i # 1
      BY <1>2, <2>1, <3>1
    <3>3. i - 1 \in 1 .. n - 1 /\ r[i - 1] = e
      BY <1>2, <1>6, <3>1, <3>2
    <3> QED
      BY <1>3, <3>3
  <2>2. ASSUME NEW e, e \in Range(r) PROVE e \in Range(q)
    <3>1. PICK i \in 1 .. n - 1 : e = r[i]
      BY <1>3, <2>2
    <3>2. i + 1 \in 1 .. n /\ q[i + 1] = e
      BY <1>2, <1>5, <3>1
    <3> QED
      BY <1>3, <3>2
  <2>3. Head(q) \in Range(q)
    BY <1>2, <1>3, <1>6
  <2> QED
    BY <2>1, <2>2, <2>3
<1>8. ASSUME NEW e, Once(q, e)
      PROVE  Once(r, e) /\ (e = Head(q) => e \notin Range(r))
  <2>1. \A i, j \in 1 .. n : q[i] = e /\ q[j] = e => i = j
    BY <1>8 DEF Once, n
  <2>2. ASSUME NEW i \in 1 .. n - 1, NEW j \in 1 .. n - 1, r[i] = e, r[j] = e
        PROVE  i = j
    <3>1. q[i + 1] = e /\ q[j + 1] = e
      BY <1>2, <2>2
    <3>2. i + 1 = j + 1
      BY <1>5, <2>1, <3>1
    <3> QED
      BY <3>2, <1>1
  <2>3. ASSUME e = Head(q), NEW i \in 1 .. n - 1, r[i] = e PROVE FALSE
    <3>1. q[1] = e /\ q[i + 1] = e
      BY <1>2, <2>3
    <3>2. 1 = i + 1
      BY <1>5, <1>6, <2>1, <3>1
    <3> QED
      BY <3>2, <1>1
  <2>4. e = Head(q) => e \notin Range(r)
    BY <1>3, <2>3
  <2> QED
    BY <1>2, <2>2, <2>4 DEF Once
<1>9. ASSUME NEW e, IsLast(q, e)
      PROVE  IsLast(r, e) /\ (e = Head(q) => r = <<>>)
  <2>1. \A i \in 1 .. n : q[i] = e => i = n
    BY <1>9 DEF IsLast, n
  <2>2. ASSUME NEW i \in 1 .. n - 1, r[i] = e PROVE i = n - 1
    <3>1. q[i + 1] = e
      BY <1>2, <2>2
    <3>2. i + 1 = n
      BY <1>5, <2>1, <3>1
    <3> QED
      BY <3>2, <1>1
  <2>3. e = Head(q) => n = 1
    BY <1>2, <1>6, <2>1
  <2> QED
    BY <1>2, <1>4, <2>2, <2>3 DEF IsLast
<1> QED
  BY <1>2, <1>7, <1>8, <1>9 DEF r

LEMMA PutLast ==
    ASSUME NEW S, NEW q \in Seq(S), NEW x \in S
    PROVE  /\ Append(q, x) \in Seq(S)
           /\ \A e : e \in Range(Append(q, x)) <=> e = x \/ e \in Range(q)
           /\ \A e : Once(q, e) /\ (e = x => x \notin Range(q)) => Once(Append(q, x), e)
           /\ \A e : e \notin Range(q) => IsLast(Append(q, x), e)
<1> DEFINE n == Len(q)
           r == Append(q, x)
<1>1. n \in Nat
  BY LenProperties
<1>2. /\ r \in Seq(S) /\ Len(r) = n + 1
      /\ \A i \in 1 .. n : r[i] = q[i]
      /\ r[n + 1] = x
  BY AppendProperties
<1>3. /\ Range(q) = {q[i] : i \in 1 .. n}
      /\ Range(r) = {r[i] : i \in 1 .. n + 1}
  BY <1>2, RangeEquality
<1> HIDE DEF n, r
<1>4. \A i : i \in 1 .. n + 1 <=> i \in 1 .. n \/ i = n + 1
  BY <1>1
<1>5. n + 1 \notin 1 .. n
  BY <1>1
<1>6. \A e : e \in Range(r) <=> e = x \/ e \in Range(q)
  BY <1>2, <1>3, <1>4
<1>7. ASSUME NEW e, Once(q, e), e = x => x \notin Range(q)
      PROVE  Once(r, e)
  <2>1. \A i, j \in 1 .. n : q[i] = e /\ q[j] = e => i = j
    BY <1>7 DEF Once, n
  <2>2. ASSUME NEW i \in 1 .. n + 1, NEW j \in 1 .. n + 1, r[i] = e, r[j] = e
        PROVE  i = j
    <3>1. e = x => \A k \in 1 .. n : q[k] # e
      BY <1>3, <1>7
    <3>2. CASE e = x
      BY <1>2, <1>4, <2>2, <3>1, <3>2
    <3>3. CASE e # x
      BY <1>2, <1>4, <2>1, <2>2, <3>3
    <3> QED
      BY <3>2, <3>3
  <2> QED
    BY <1>2, <2>2 DEF Once
<1>8. ASSUME NEW e, e \notin Range(q) PROVE IsLast(r, e)
  <2>1. ASSUME NEW i \in 1 .. n + 1, r[i] = e PROVE i = n + 1
    BY <1>2, <1>3, <1>4, <1>8, <2>1
  <2> QED
    BY <1>2, <2>1 DEF IsLast
<1> QED
  BY <1>2, <1>6, <1>7, <1>8 DEF r

LEMMA NothingQueued == \A e : e \notin Range(<<>>) /\ Once(<<>>, e) /\ IsLast(<<>>, e)
BY EmptySeq DEF Range, Once, IsLast

------------------------------------------------------------------------------
(* The sessions of the programmes *)

LEMMA ProgrammeIInv == ASSUME IInv, NEW s \in Sessions, Programme(s) PROVE IInv'
<1>1. UNCHANGED <<player, alert>>
  BY DEF Programme, SetPresentationParams, Play, StopProgramme, StartDisplaySession,
         CloseDisplaySession
<1>2. TypeOK'
  <2> USE <1>1 DEF IInv, TypeOK, player, alert, focus
  <2>1. ASSUME NEW enable \in BOOLEAN, SetPresentationParams(s, enable) PROVE TypeOK'
    BY <2>1 DEF SetPresentationParams
  <2>2. CASE Play(s)
    BY <2>2 DEF Play
  <2>3. CASE StopProgramme(s)
    BY <2>3 DEF StopProgramme
  <2>4. CASE StartDisplaySession(s)
    <3>1. PICK audio \in BOOLEAN, state \in {"started", "incomplete"} :
            /\ decodes' = [decodes EXCEPT ![s] = audio]
            /\ display' = [display EXCEPT ![s] = state]
            /\ UNCHANGED focus
      BY <2>4 DEF StartDisplaySession
    <3> QED
      BY <3>1
  <2>5. CASE CloseDisplaySession(s)
    BY <2>5 DEF CloseDisplaySession
  <2> QED
    BY <2>1, <2>2, <2>3, <2>4, <2>5 DEF Programme
<1>3. OneStart' /\ ClientOK' /\ FlagOK'
  BY <1>1 DEF IInv, OneStart, ClientOK, FlagOK, Starting, AtStart, EasPlays, player, alert
<1>4. DecoderOK'
  <2> USE <1>1 DEF IInv, DecoderOK, Started, InFocus, EasPlays, player, alert, focus, TypeOK
  <2>1. ASSUME NEW enable \in BOOLEAN, SetPresentationParams(s, enable) PROVE DecoderOK'
    BY <2>1 DEF SetPresentationParams
  <2>2. CASE Play(s)
    BY <2>2 DEF Play
  <2>3. CASE StopProgramme(s)
    BY <2>3 DEF StopProgramme
  <2>4. CASE StartDisplaySession(s)
    <3>1. PICK audio \in {enaAudio[s] /\ ~mEasAudioActive, FALSE},
               state \in {"started", "incomplete"} :
            /\ decodes' = [decodes EXCEPT ![s] = audio]
            /\ display' = [display EXCEPT ![s] = state]
            /\ state = "started" => audio = (enaAudio[s] /\ ~mEasAudioActive)
            /\ UNCHANGED focus
      BY <2>4 DEF StartDisplaySession
    <3>2. EasPlays \/ playerAt = "starteas" => mEasAudioActive
      BY DEF FlagOK, AtStart
    <3> DEFINE starts == EasPlays \/ playerAt = "starteas"
               rests == ~mEasAudioActive /\ playerAt # "restart" /\ Restart \notin Range(playerQueue)
    <3>3. starts' = starts /\ rests' = rests
      OBVIOUS
    <3>4. /\ \A t \in Sessions : decodes[t] => enaAudio[t] /\ display[t] \in {"started", "incomplete"}
          /\ \A t \in Sessions : mEnaAudio[t] => enaAudio[t]
          /\ starts => \A t \in Started : ~decodes[t]
          /\ rests => \A t \in Started : decodes[t]
          /\ starts => mEasAudioActive
          /\ rests => ~mEasAudioActive
      BY <3>2
    <3> HIDE DEF starts, rests
    <3>5. /\ \A t \in Sessions : decodes'[t] => enaAudio'[t] /\ display'[t] \in {"started", "incomplete"}
          /\ \A t \in Sessions : mEnaAudio'[t] => enaAudio'[t]
      BY <3>1, <3>4
    <3>6. starts => \A t \in Started' : ~decodes'[t]
      BY <3>1, <3>4
    <3>7. rests => \A t \in Started' : decodes'[t]
      BY <3>1, <3>4
    <3> USE DEF starts, rests
    <3> QED
      BY <3>3, <3>5, <3>6, <3>7
  <2>5. CASE CloseDisplaySession(s)
    BY <2>5 DEF CloseDisplaySession
  <2> QED
    BY <2>1, <2>2, <2>3, <2>4, <2>5 DEF Programme
<1> QED
  BY <1>2, <1>3, <1>4 DEF IInv

------------------------------------------------------------------------------
(* The EAS client, AudioPlayer's thread and its callbacks, the player's thread *)

LEMMA EasLoadIInv == ASSUME IInv, EasLoad PROVE IInv'
<1>1. apQueue' = Append(apQueue, "PrepareSource") /\ apQueue \in Seq(AudioEvents)
  BY DEF EasLoad, IInv, TypeOK, AudioEvents
<1>2. /\ apQueue' \in Seq(AudioEvents)
      /\ \A e : e \in Range(apQueue') <=> e = "PrepareSource" \/ e \in Range(apQueue)
      /\ \A e : Once(apQueue, e) /\ (e = "PrepareSource" => "PrepareSource" \notin Range(apQueue)) =>
            Once(apQueue', e)
  BY <1>1, PutLast DEF AudioEvents
<1>3. TypeOK'
  BY <1>1, <1>2 DEF IInv, EasLoad, MutexFree, TypeOK, AudioEvents, Start,
      Restart, vars, programmes, focus, player, alert
<1>4. OneStart'
  BY <1>1, <1>2 DEF IInv, EasLoad, MutexFree, OneStart, Starting, AtStart,
      ClientOK, Start, Restart, vars, programmes, focus, player, alert
<1>5. ClientOK'
  BY <1>1, <1>2 DEF IInv, EasLoad, MutexFree, ClientOK, FlagOK, Starting,
      AtStart, EasPlays, OneStart, TypeOK, Start, Restart, vars, programmes,
      focus, player, alert
<1>6. FlagOK'
  BY <1>1, <1>2 DEF IInv, EasLoad, MutexFree, TypeOK, FlagOK, EasPlays, AtStart,
      ClientOK, Starting, Start, Restart, OneStart, vars, programmes, focus,
      player, alert
<1>7. DecoderOK'
  BY <1>1, <1>2 DEF IInv, EasLoad, MutexFree, DecoderOK, Started, InFocus,
      EasPlays, FlagOK, ClientOK, AtStart, Starting, Start, Restart, TypeOK,
      vars, programmes, focus, player, alert
<1> QED
  BY <1>3, <1>4, <1>5, <1>6, <1>7 DEF IInv

LEMMA EasPlayIInv == ASSUME IInv, EasPlay PROVE IInv'
<1>1. apQueue' = Append(apQueue, "PlaySource") /\ apQueue \in Seq(AudioEvents)
  BY DEF EasPlay, IInv, TypeOK, AudioEvents
<1>2. /\ apQueue' \in Seq(AudioEvents)
      /\ \A e : e \in Range(apQueue') <=> e = "PlaySource" \/ e \in Range(apQueue)
      /\ \A e : Once(apQueue, e) /\ (e = "PlaySource" => "PlaySource" \notin Range(apQueue)) =>
            Once(apQueue', e)
  BY <1>1, PutLast DEF AudioEvents
<1>3. TypeOK'
  BY <1>1, <1>2 DEF IInv, EasPlay, MutexFree, TypeOK, AudioEvents, Start,
      Restart, vars, programmes, focus, player, alert
<1>4. OneStart'
  BY <1>1, <1>2 DEF IInv, EasPlay, MutexFree, OneStart, Starting, AtStart,
      ClientOK, Start, Restart, vars, programmes, focus, player, alert
<1>5. ClientOK'
  BY <1>1, <1>2 DEF IInv, EasPlay, MutexFree, ClientOK, FlagOK, Starting,
      AtStart, EasPlays, OneStart, TypeOK, Start, Restart, vars, programmes,
      focus, player, alert
<1>6. FlagOK'
  BY <1>1, <1>2 DEF IInv, EasPlay, MutexFree, FlagOK, EasPlays, AtStart,
      ClientOK, Starting, Start, Restart, OneStart, vars, programmes, focus,
      player, alert
<1>7. DecoderOK'
  BY <1>1, <1>2 DEF IInv, EasPlay, MutexFree, DecoderOK, Started, InFocus,
      EasPlays, FlagOK, ClientOK, AtStart, Starting, Start, Restart, TypeOK,
      vars, programmes, focus, player, alert
<1> QED
  BY <1>3, <1>4, <1>5, <1>6, <1>7 DEF IInv

LEMMA EasStopIInv == ASSUME ~StopsAnytime, IInv, EasStop PROVE IInv'
<1>1. TypeOK'
  BY DEF IInv, EasStop, MutexFree, StartComing, TypeOK, AudioEvents, Start,
      Restart, vars, programmes, focus, player, alert
<1>2. OneStart'
  BY DEF IInv, EasStop, MutexFree, StartComing, OneStart, Starting, AtStart,
      ClientOK, Start, Restart, vars, programmes, focus, player, alert
<1>3. ClientOK'
  BY DEF IInv, EasStop, MutexFree, StartComing, ClientOK, FlagOK, Starting,
      AtStart, EasPlays, OneStart, TypeOK, Start, Restart, vars, programmes,
      focus, player, alert
<1>4. FlagOK'
  BY DEF IInv, EasStop, MutexFree, StartComing, FlagOK, EasPlays, AtStart,
      ClientOK, Starting, Start, Restart, OneStart, vars, programmes, focus,
      player, alert
<1>5. DecoderOK'
  BY DEF IInv, EasStop, MutexFree, StartComing, DecoderOK, Started, InFocus,
      EasPlays, FlagOK, ClientOK, AtStart, Starting, Start, Restart, TypeOK,
      vars, programmes, focus, player, alert
<1> QED
  BY <1>1, <1>2, <1>3, <1>4, <1>5 DEF IInv

LEMMA EasEjectIInv == ASSUME IInv, EasEject PROVE IInv'
<1>1. TypeOK'
  BY DEF IInv, EasEject, MutexFree, TypeOK, AudioEvents, Start, Restart, vars,
      programmes, focus, player, alert
<1>2. OneStart'
  BY DEF IInv, EasEject, MutexFree, OneStart, Starting, AtStart, ClientOK,
      Start, Restart, vars, programmes, focus, player, alert
<1>3. ClientOK'
  BY DEF IInv, EasEject, MutexFree, ClientOK, FlagOK, Starting, AtStart,
      EasPlays, OneStart, TypeOK, Start, Restart, vars, programmes, focus,
      player, alert
<1>4. FlagOK'
  BY DEF IInv, EasEject, MutexFree, FlagOK, EasPlays, AtStart, ClientOK,
      Starting, Start, Restart, OneStart, vars, programmes, focus, player,
      alert
<1>5. DecoderOK'
  BY DEF IInv, EasEject, MutexFree, DecoderOK, Started, InFocus, EasPlays,
      FlagOK, ClientOK, AtStart, Starting, Start, Restart, TypeOK, vars,
      programmes, focus, player, alert
<1> QED
  BY <1>1, <1>2, <1>3, <1>4, <1>5 DEF IInv

LEMMA PrepareSourceIInv == ASSUME IInv, enterPrepareSourceState PROVE IInv'
<1>1. /\ apQueue # <<>> /\ Head(apQueue) = "PrepareSource" /\ apQueue' = Tail(apQueue)
      /\ apQueue \in Seq(AudioEvents)
  BY DEF enterPrepareSourceState, PopAudioEvent, IInv, TypeOK, AudioEvents
<1>2. /\ apQueue' \in Seq(AudioEvents)
      /\ \A e : e \in Range(apQueue) <=> e = "PrepareSource" \/ e \in Range(apQueue')
      /\ \A e : Once(apQueue, e) => Once(apQueue', e)
      /\ Once(apQueue, "PrepareSource") => "PrepareSource" \notin Range(apQueue')
  BY <1>1, TakeFirst
<1>3. TypeOK'
  BY <1>1, <1>2 DEF IInv, enterPrepareSourceState, PopAudioEvent, TypeOK,
      AudioEvents, Start, Restart, vars, programmes, focus, player, alert
<1>4. OneStart'
  BY <1>1, <1>2 DEF IInv, enterPrepareSourceState, PopAudioEvent, OneStart,
      Starting, AtStart, ClientOK, Start, Restart, vars, programmes, focus,
      player, alert
<1>5. ClientOK'
  BY <1>1, <1>2 DEF IInv, enterPrepareSourceState, PopAudioEvent, ClientOK,
      FlagOK, Starting, AtStart, EasPlays, OneStart, TypeOK, Start, Restart,
      vars, programmes, focus, player, alert
<1>6. FlagOK'
  BY <1>1, <1>2 DEF IInv, enterPrepareSourceState, PopAudioEvent, FlagOK,
      EasPlays, AtStart, ClientOK, Starting, Start, Restart, OneStart, vars,
      programmes, focus, player, alert
<1>7. DecoderOK'
  BY <1>1, <1>2 DEF IInv, enterPrepareSourceState, PopAudioEvent, DecoderOK,
      Started, InFocus, EasPlays, FlagOK, ClientOK, AtStart, Starting, Start,
      Restart, TypeOK, vars, programmes, focus, player, alert
<1> QED
  BY <1>3, <1>4, <1>5, <1>6, <1>7 DEF IInv

LEMMA PlaySourceIInv == ASSUME IInv, enterPlaySourceState PROVE IInv'
<1>1. /\ apQueue # <<>> /\ Head(apQueue) = "PlaySource" /\ apQueue' = Tail(apQueue)
      /\ apQueue \in Seq(AudioEvents)
  BY DEF enterPlaySourceState, PopAudioEvent, IInv, TypeOK, AudioEvents
<1>2. /\ apQueue' \in Seq(AudioEvents)
      /\ \A e : e \in Range(apQueue) <=> e = "PlaySource" \/ e \in Range(apQueue')
      /\ \A e : Once(apQueue, e) => Once(apQueue', e)
      /\ Once(apQueue, "PlaySource") => "PlaySource" \notin Range(apQueue')
  BY <1>1, TakeFirst
<1>3. playerQueue' = Append(playerQueue, Start) =>
        /\ playerQueue' \in Seq({Start, Restart})
        /\ \A e : e \in Range(playerQueue') <=> e = Start \/ e \in Range(playerQueue)
        /\ \A e : e \notin Range(playerQueue) => IsLast(playerQueue', e)
  BY PutLast DEF IInv, TypeOK, Start, Restart
<1>4. TypeOK'
  BY <1>1, <1>2, <1>3 DEF IInv, enterPlaySourceState, PopAudioEvent,
      stopPrimaryAudioAndStartEasAudio, TypeOK, AudioEvents, Start, Restart,
      vars, programmes, focus, player, alert
<1>5. OneStart'
  BY <1>1, <1>2, <1>3 DEF IInv, enterPlaySourceState, PopAudioEvent,
      stopPrimaryAudioAndStartEasAudio, OneStart, Starting, AtStart, ClientOK,
      Start, Restart, vars, programmes, focus, player, alert
<1>6. ClientOK'
  BY <1>1, <1>2, <1>3 DEF IInv, enterPlaySourceState, PopAudioEvent,
      stopPrimaryAudioAndStartEasAudio, ClientOK, FlagOK, Starting, AtStart,
      EasPlays, OneStart, TypeOK, Start, Restart, vars, programmes, focus,
      player, alert
<1>7. FlagOK'
  BY <1>1, <1>2, <1>3 DEF IInv, enterPlaySourceState, PopAudioEvent,
      stopPrimaryAudioAndStartEasAudio, FlagOK, EasPlays, AtStart, ClientOK,
      Starting, Start, Restart, OneStart, vars, programmes, focus, player,
      alert
<1>8. DecoderOK'
  BY <1>1, <1>2, <1>3 DEF IInv, enterPlaySourceState, PopAudioEvent,
      stopPrimaryAudioAndStartEasAudio, DecoderOK, Started, InFocus, EasPlays,
      FlagOK, ClientOK, AtStart, Starting, Start, Restart, TypeOK, vars,
      programmes, focus, player, alert
<1> QED
  BY <1>4, <1>5, <1>6, <1>7, <1>8 DEF IInv

LEMMA TimerIInv == ASSUME IInv, processTimerEvent PROVE IInv'
<1>1. /\ apQueue # <<>> /\ Head(apQueue) = "Timer" /\ apQueue' = Tail(apQueue)
      /\ apQueue \in Seq(AudioEvents)
  BY DEF processTimerEvent, PopAudioEvent, IInv, TypeOK, AudioEvents
<1>2. /\ apQueue' \in Seq(AudioEvents)
      /\ \A e : e \in Range(apQueue) <=> e = "Timer" \/ e \in Range(apQueue')
      /\ \A e : Once(apQueue, e) => Once(apQueue', e)
      /\ Once(apQueue, "Timer") => "Timer" \notin Range(apQueue')
  BY <1>1, TakeFirst
<1>3. playerQueue' = Append(playerQueue, Start) =>
        /\ playerQueue' \in Seq({Start, Restart})
        /\ \A e : e \in Range(playerQueue') <=> e = Start \/ e \in Range(playerQueue)
        /\ \A e : e \notin Range(playerQueue) => IsLast(playerQueue', e)
  BY PutLast DEF IInv, TypeOK, Start, Restart
<1>4. TypeOK'
  BY <1>1, <1>2, <1>3, ZenonT(40) DEF IInv, processTimerEvent, PopAudioEvent,
      stopPrimaryAudioAndStartEasAudio, TypeOK, AudioEvents, Start, Restart,
      vars, programmes, focus, player, alert
<1>5. OneStart'
  BY <1>1, <1>2, <1>3 DEF IInv, processTimerEvent, PopAudioEvent,
      stopPrimaryAudioAndStartEasAudio, OneStart, Starting, AtStart, ClientOK,
      Start, Restart, vars, programmes, focus, player, alert
<1>6. ClientOK'
  BY <1>1, <1>2, <1>3 DEF IInv, processTimerEvent, PopAudioEvent,
      stopPrimaryAudioAndStartEasAudio, ClientOK, FlagOK, Starting, AtStart,
      EasPlays, OneStart, TypeOK, Start, Restart, vars, programmes, focus,
      player, alert
<1>7. FlagOK'
  BY <1>1, <1>2, <1>3 DEF IInv, processTimerEvent, PopAudioEvent,
      stopPrimaryAudioAndStartEasAudio, FlagOK, EasPlays, AtStart, ClientOK,
      Starting, Start, Restart, OneStart, vars, programmes, focus, player,
      alert
<1>8. DecoderOK'
  BY <1>1, <1>2, <1>3 DEF IInv, processTimerEvent, PopAudioEvent,
      stopPrimaryAudioAndStartEasAudio, DecoderOK, Started, InFocus, EasPlays,
      FlagOK, ClientOK, AtStart, Starting, Start, Restart, TypeOK, vars,
      programmes, focus, player, alert
<1> QED
  BY <1>4, <1>5, <1>6, <1>7, <1>8 DEF IInv

LEMMA AudioIInv == ASSUME IInv, processAudioEvent PROVE IInv'
<1>1. /\ apQueue # <<>> /\ Head(apQueue) = "BufferCmplt" /\ apQueue' = Tail(apQueue)
      /\ apQueue \in Seq(AudioEvents)
  BY DEF processAudioEvent, PopAudioEvent, IInv, TypeOK, AudioEvents
<1>2. /\ apQueue' \in Seq(AudioEvents)
      /\ \A e : e \in Range(apQueue) <=> e = "BufferCmplt" \/ e \in Range(apQueue')
      /\ \A e : Once(apQueue, e) => Once(apQueue', e)
      /\ Once(apQueue, "BufferCmplt") => "BufferCmplt" \notin Range(apQueue')
  BY <1>1, TakeFirst
<1>3. playerQueue' = Append(playerQueue, Restart) =>
        /\ playerQueue' \in Seq({Start, Restart})
        /\ \A e : e \in Range(playerQueue') <=> e = Restart \/ e \in Range(playerQueue)
        /\ \A e : e \notin Range(playerQueue) => IsLast(playerQueue', e)
  BY PutLast DEF IInv, TypeOK, Start, Restart
<1>4. TypeOK'
  BY <1>1, <1>2, <1>3, ZenonT(40) DEF IInv, processAudioEvent, PopAudioEvent,
      restartPrimaryAudio, TypeOK, AudioEvents, Start, Restart, vars,
      programmes, focus, player, alert
<1>5. OneStart'
  BY <1>1, <1>2, <1>3 DEF IInv, processAudioEvent, PopAudioEvent,
      restartPrimaryAudio, OneStart, Starting, AtStart, ClientOK, Start,
      Restart, vars, programmes, focus, player, alert
<1>6. ClientOK'
  BY <1>1, <1>2, <1>3 DEF IInv, processAudioEvent, PopAudioEvent,
      restartPrimaryAudio, ClientOK, FlagOK, Starting, AtStart, EasPlays,
      OneStart, TypeOK, Start, Restart, vars, programmes, focus, player, alert
<1>7. FlagOK'
  BY <1>1, <1>2, <1>3 DEF IInv, processAudioEvent, PopAudioEvent,
      restartPrimaryAudio, FlagOK, EasPlays, AtStart, ClientOK, Starting,
      Start, Restart, OneStart, vars, programmes, focus, player, alert
<1>8. DecoderOK'
  BY <1>1, <1>2, <1>3 DEF IInv, processAudioEvent, PopAudioEvent,
      restartPrimaryAudio, DecoderOK, Started, InFocus, EasPlays, FlagOK,
      ClientOK, AtStart, Starting, Start, Restart, TypeOK, vars, programmes,
      focus, player, alert
<1> QED
  BY <1>4, <1>5, <1>6, <1>7, <1>8 DEF IInv

LEMMA ExitThreadIInv == ASSUME IInv, ExitThread PROVE IInv'
<1>1. TypeOK'
  BY DEF IInv, ExitThread, TypeOK, AudioEvents, Start, Restart, vars,
      programmes, focus, player, alert
<1>2. OneStart'
  BY DEF IInv, ExitThread, OneStart, Starting, AtStart, ClientOK, Start,
      Restart, vars, programmes, focus, player, alert
<1>3. ClientOK'
  BY DEF IInv, ExitThread, ClientOK, FlagOK, Starting, AtStart, EasPlays,
      OneStart, TypeOK, Start, Restart, vars, programmes, focus, player, alert
<1>4. FlagOK'
  BY DEF IInv, ExitThread, FlagOK, EasPlays, AtStart, ClientOK, Starting,
      Start, Restart, OneStart, vars, programmes, focus, player, alert
<1>5. DecoderOK'
  BY DEF IInv, ExitThread, DecoderOK, Started, InFocus, EasPlays, FlagOK,
      ClientOK, AtStart, Starting, Start, Restart, TypeOK, vars, programmes,
      focus, player, alert
<1> QED
  BY <1>1, <1>2, <1>3, <1>4, <1>5 DEF IInv

LEMMA TimerCallbackIInv == ASSUME IInv, timerCallback PROVE IInv'
<1>1. apQueue' = Append(apQueue, "Timer") /\ apQueue \in Seq(AudioEvents)
  BY DEF timerCallback, IInv, TypeOK, AudioEvents
<1>2. /\ apQueue' \in Seq(AudioEvents)
      /\ \A e : e \in Range(apQueue') <=> e = "Timer" \/ e \in Range(apQueue)
      /\ \A e : Once(apQueue, e) /\ (e = "Timer" => "Timer" \notin Range(apQueue)) =>
            Once(apQueue', e)
  BY <1>1, PutLast DEF AudioEvents
<1>3. TypeOK'
  BY <1>1, <1>2 DEF IInv, timerCallback, TypeOK, AudioEvents, Start, Restart,
      vars, programmes, focus, player, alert
<1>4. OneStart'
  BY <1>1, <1>2 DEF IInv, timerCallback, OneStart, Starting, AtStart,
      ClientOK, Start, Restart, vars, programmes, focus, player, alert
<1>5. ClientOK'
  BY <1>1, <1>2 DEF IInv, timerCallback, ClientOK, FlagOK, Starting, AtStart,
      EasPlays, OneStart, TypeOK, Start, Restart, vars, programmes, focus,
      player, alert
<1>6. FlagOK'
  BY <1>1, <1>2 DEF IInv, timerCallback, FlagOK, EasPlays, AtStart, ClientOK,
      Starting, Start, Restart, OneStart, vars, programmes, focus, player,
      alert
<1>7. DecoderOK'
  BY <1>1, <1>2 DEF IInv, timerCallback, DecoderOK, Started, InFocus,
      EasPlays, FlagOK, ClientOK, AtStart, Starting, Start, Restart, TypeOK,
      vars, programmes, focus, player, alert
<1> QED
  BY <1>3, <1>4, <1>5, <1>6, <1>7 DEF IInv

LEMMA AudioCallbackIInv == ASSUME IInv, audioCallback PROVE IInv'
<1>1. apQueue' = Append(apQueue, "BufferCmplt") /\ apQueue \in Seq(AudioEvents)
  BY DEF audioCallback, IInv, TypeOK, AudioEvents
<1>2. /\ apQueue' \in Seq(AudioEvents)
      /\ \A e : e \in Range(apQueue') <=> e = "BufferCmplt" \/ e \in Range(apQueue)
      /\ \A e : Once(apQueue, e) /\ (e = "BufferCmplt" => "BufferCmplt" \notin Range(apQueue)) =>
            Once(apQueue', e)
  BY <1>1, PutLast DEF AudioEvents
<1>3. TypeOK'
  BY <1>1, <1>2 DEF IInv, audioCallback, TypeOK, AudioEvents, Start, Restart,
      vars, programmes, focus, player, alert
<1>4. OneStart'
  BY <1>1, <1>2 DEF IInv, audioCallback, OneStart, Starting, AtStart,
      ClientOK, Start, Restart, vars, programmes, focus, player, alert
<1>5. ClientOK'
  BY <1>1, <1>2 DEF IInv, audioCallback, ClientOK, FlagOK, Starting, AtStart,
      EasPlays, OneStart, TypeOK, Start, Restart, vars, programmes, focus,
      player, alert
<1>6. FlagOK'
  BY <1>1, <1>2 DEF IInv, audioCallback, FlagOK, EasPlays, AtStart, ClientOK,
      Starting, Start, Restart, OneStart, vars, programmes, focus, player,
      alert
<1>7. DecoderOK'
  BY <1>1, <1>2 DEF IInv, audioCallback, DecoderOK, Started, InFocus,
      EasPlays, FlagOK, ClientOK, AtStart, Starting, Start, Restart, TypeOK,
      vars, programmes, focus, player, alert
<1> QED
  BY <1>3, <1>4, <1>5, <1>6, <1>7 DEF IInv

LEMMA ProcessStopIInv == ASSUME IInv, ProcessStopInFocusAudioAndStartEasAudio PROVE IInv'
<1>1. /\ playerQueue # <<>> /\ Head(playerQueue) = Start
      /\ playerQueue' = Tail(playerQueue) /\ playerQueue \in Seq({Start, Restart})
  BY DEF ProcessStopInFocusAudioAndStartEasAudio, popEventQueue, IInv, TypeOK, Start, Restart
<1>2. /\ playerQueue' \in Seq({Start, Restart})
      /\ \A e : e \in Range(playerQueue) <=> e = Start \/ e \in Range(playerQueue')
      /\ \A e : IsLast(playerQueue, e) => IsLast(playerQueue', e)
      /\ IsLast(playerQueue, Start) => playerQueue' = <<>>
  BY <1>1, TakeFirst
<1>3. \A e : e \notin Range(<<>>) /\ IsLast(<<>>, e)
  BY NothingQueued
<1>4. TypeOK'
  BY <1>1, <1>2, <1>3 DEF IInv, ProcessStopInFocusAudioAndStartEasAudio,
      popEventQueue, MutexFree, TypeOK, AudioEvents, Start, Restart, vars,
      programmes, focus, player, alert
<1>5. OneStart'
  BY <1>1, <1>2, <1>3 DEF IInv, ProcessStopInFocusAudioAndStartEasAudio,
      popEventQueue, MutexFree, OneStart, Starting, AtStart, ClientOK, Start,
      Restart, vars, programmes, focus, player, alert
<1>6. ClientOK'
  BY <1>1, <1>2, <1>3 DEF IInv, ProcessStopInFocusAudioAndStartEasAudio,
      popEventQueue, MutexFree, ClientOK, FlagOK, Starting, AtStart, EasPlays,
      OneStart, TypeOK, Start, Restart, vars, programmes, focus, player, alert
<1>7. FlagOK'
  BY <1>1, <1>2, <1>3 DEF IInv, ProcessStopInFocusAudioAndStartEasAudio,
      popEventQueue, MutexFree, FlagOK, EasPlays, AtStart, ClientOK, Starting,
      Start, Restart, OneStart, vars, programmes, focus, player, alert
<1>8. DecoderOK'
  BY <1>1, <1>2, <1>3 DEF IInv, ProcessStopInFocusAudioAndStartEasAudio,
      popEventQueue, MutexFree, DecoderOK, Started, InFocus, EasPlays, FlagOK,
      ClientOK, AtStart, Starting, Start, Restart, TypeOK, vars, programmes,
      focus, player, alert
<1> QED
  BY <1>4, <1>5, <1>6, <1>7, <1>8 DEF IInv

LEMMA StopAudioIInv == ASSUME IInv, StopAudio PROVE IInv'
<1>1. TypeOK'
  BY DEF IInv, StopAudio, SetAudio, TypeOK, AudioEvents, Start, Restart, vars,
      programmes, focus, player, alert
<1>2. OneStart'
  BY DEF IInv, StopAudio, SetAudio, OneStart, Starting, AtStart, ClientOK,
      Start, Restart, vars, programmes, focus, player, alert
<1>3. ClientOK'
  BY DEF IInv, StopAudio, SetAudio, ClientOK, FlagOK, Starting, AtStart,
      EasPlays, OneStart, TypeOK, Start, Restart, vars, programmes, focus,
      player, alert
<1>4. FlagOK'
  BY DEF IInv, StopAudio, SetAudio, FlagOK, EasPlays, AtStart, ClientOK,
      Starting, Start, Restart, OneStart, vars, programmes, focus, player,
      alert
<1>5. DecoderOK'
  BY DEF IInv, StopAudio, SetAudio, DecoderOK, Started, InFocus, EasPlays,
      FlagOK, ClientOK, AtStart, Starting, Start, Restart, TypeOK, vars,
      programmes, focus, player, alert
<1> QED
  BY <1>1, <1>2, <1>3, <1>4, <1>5 DEF IInv

LEMMA StartEasAudioIInv == ASSUME IInv, startEasAudio PROVE IInv'
<1>1. playerQueue' = Append(playerQueue, Restart) =>
        /\ playerQueue' \in Seq({Start, Restart})
        /\ \A e : e \in Range(playerQueue') <=> e = Restart \/ e \in Range(playerQueue)
        /\ \A e : e \notin Range(playerQueue) => IsLast(playerQueue', e)
  BY PutLast DEF IInv, TypeOK, Start, Restart
<1>2. /\ playerQueue = <<>> /\ \A e : e \notin Range(playerQueue)
      /\ IsLast(playerQueue, Start) /\ "PlaySource" \notin Range(apQueue)
      /\ playerAt = "starteas" /\ playerAt' = "pop"
      /\ easClient = "playing" /\ mEasAudioActive
  BY NothingQueued DEF IInv, OneStart, ClientOK, FlagOK, AtStart, Starting, startEasAudio
<1>3. TypeOK'
  BY <1>1, <1>2 DEF IInv, startEasAudio, restartPrimaryAudio, TypeOK, AudioEvents,
      Start, Restart, vars, programmes, focus, player, alert
<1>4. OneStart'
  BY <1>1, <1>2 DEF IInv, startEasAudio, restartPrimaryAudio, OneStart, Starting,
      AtStart, ClientOK, Start, Restart, vars, programmes, focus, player,
      alert
<1>5. ClientOK'
  BY <1>1, <1>2 DEF IInv, startEasAudio, restartPrimaryAudio, ClientOK, FlagOK,
      Starting, AtStart, EasPlays, OneStart, TypeOK, Start, Restart, vars,
      programmes, focus, player, alert
<1>6. FlagOK'
  BY <1>1, <1>2 DEF IInv, startEasAudio, restartPrimaryAudio, FlagOK, EasPlays,
      AtStart, ClientOK, Starting, Start, Restart, OneStart, vars, programmes,
      focus, player, alert
<1>7. DecoderOK'
  BY <1>1, <1>2 DEF IInv, startEasAudio, restartPrimaryAudio, DecoderOK, Started,
      InFocus, EasPlays, FlagOK, ClientOK, AtStart, Starting, Start, Restart,
      TypeOK, vars, programmes, focus, player, alert
<1> QED
  BY <1>3, <1>4, <1>5, <1>6, <1>7 DEF IInv

LEMMA ProcessRestartIInv == ASSUME IInv, ProcessRestartInFocusAudio PROVE IInv'
<1>1. /\ playerQueue # <<>> /\ Head(playerQueue) = Restart
      /\ playerQueue' = Tail(playerQueue) /\ playerQueue \in Seq({Start, Restart})
  BY DEF ProcessRestartInFocusAudio, popEventQueue, IInv, TypeOK, Start, Restart
<1>2. /\ playerQueue' \in Seq({Start, Restart})
      /\ \A e : e \in Range(playerQueue) <=> e = Restart \/ e \in Range(playerQueue')
      /\ \A e : IsLast(playerQueue, e) => IsLast(playerQueue', e)
      /\ IsLast(playerQueue, Restart) => playerQueue' = <<>>
  BY <1>1, TakeFirst
<1>3. \A e : e \notin Range(<<>>) /\ IsLast(<<>>, e)
  BY NothingQueued
<1>4. TypeOK'
  BY <1>1, <1>2, <1>3 DEF IInv, ProcessRestartInFocusAudio, popEventQueue,
      MutexFree, TypeOK, AudioEvents, Start, Restart, vars, programmes, focus,
      player, alert
<1>5. OneStart'
  BY <1>1, <1>2, <1>3 DEF IInv, ProcessRestartInFocusAudio, popEventQueue,
      MutexFree, OneStart, Starting, AtStart, ClientOK, Start, Restart, vars,
      programmes, focus, player, alert
<1>6. ClientOK'
  BY <1>1, <1>2, <1>3 DEF IInv, ProcessRestartInFocusAudio, popEventQueue,
      MutexFree, ClientOK, FlagOK, Starting, AtStart, EasPlays, OneStart,
      TypeOK, Start, Restart, vars, programmes, focus, player, alert
<1>7. FlagOK'
  BY <1>1, <1>2, <1>3 DEF IInv, ProcessRestartInFocusAudio, popEventQueue,
      MutexFree, FlagOK, EasPlays, AtStart, ClientOK, Starting, Start,
      Restart, OneStart, vars, programmes, focus, player, alert
<1>8. DecoderOK'
  BY <1>1, <1>2, <1>3 DEF IInv, ProcessRestartInFocusAudio, popEventQueue,
      MutexFree, DecoderOK, Started, InFocus, EasPlays, FlagOK, ClientOK,
      AtStart, Starting, Start, Restart, TypeOK, vars, programmes, focus,
      player, alert
<1> QED
  BY <1>4, <1>5, <1>6, <1>7, <1>8 DEF IInv

LEMMA RestartAudioIInv == ASSUME IInv, RestartAudio PROVE IInv'
<1>1. TypeOK'
  BY DEF IInv, RestartAudio, SetAudio, TypeOK, AudioEvents, Start, Restart,
      vars, programmes, focus, player, alert
<1>2. OneStart'
  BY DEF IInv, RestartAudio, SetAudio, OneStart, Starting, AtStart, ClientOK,
      Start, Restart, vars, programmes, focus, player, alert
<1>3. ClientOK'
  BY DEF IInv, RestartAudio, SetAudio, ClientOK, FlagOK, Starting, AtStart,
      EasPlays, OneStart, TypeOK, Start, Restart, vars, programmes, focus,
      player, alert
<1>4. FlagOK'
  BY DEF IInv, RestartAudio, SetAudio, FlagOK, EasPlays, AtStart, ClientOK,
      Starting, Start, Restart, OneStart, vars, programmes, focus, player,
      alert
<1>5. DecoderOK'
  BY DEF IInv, RestartAudio, SetAudio, DecoderOK, Started, InFocus, EasPlays,
      FlagOK, ClientOK, AtStart, Starting, Start, Restart, TypeOK, vars,
      programmes, focus, player, alert
<1> QED
  BY <1>1, <1>2, <1>3, <1>4, <1>5 DEF IInv

------------------------------------------------------------------------------
LEMMA InitIInv == Init => IInv
<1> SUFFICES ASSUME Init PROVE IInv
  OBVIOUS
<1>1. \A e : e \notin Range(<<>>) /\ Once(<<>>, e) /\ IsLast(<<>>, e)
  BY NothingQueued
<1>2. TypeOK
  BY EmptySeq DEF Init, TypeOK
<1>3. OneStart /\ ClientOK /\ FlagOK
  BY <1>1 DEF Init, OneStart, ClientOK, FlagOK, Starting, AtStart, EasPlays
<1>4. DecoderOK
  BY <1>1 DEF Init, DecoderOK, Started, InFocus, EasPlays
<1> QED
  BY <1>2, <1>3, <1>4 DEF IInv

LEMMA NextIInv == ASSUME ~StopsAnytime, IInv, [Next]_vars PROVE IInv'
<1>1. ASSUME NEW s \in Sessions, Programme(s) PROVE IInv'
  BY <1>1, ProgrammeIInv
<1>2. CASE EasLoad
  BY <1>2, EasLoadIInv
<1>3. CASE EasPlay
  BY <1>3, EasPlayIInv
<1>4. CASE EasStop
  BY <1>4, EasStopIInv
<1>5. CASE EasEject
  BY <1>5, EasEjectIInv
<1>6. CASE enterPrepareSourceState
  BY <1>6, PrepareSourceIInv
<1>7. CASE enterPlaySourceState
  BY <1>7, PlaySourceIInv
<1>8. CASE processTimerEvent
  BY <1>8, TimerIInv
<1>9. CASE processAudioEvent
  BY <1>9, AudioIInv
<1>10. CASE ExitThread
  BY <1>10, ExitThreadIInv
<1>11. CASE timerCallback
  BY <1>11, TimerCallbackIInv
<1>12. CASE audioCallback
  BY <1>12, AudioCallbackIInv
<1>13. CASE ProcessStopInFocusAudioAndStartEasAudio
  BY <1>13, ProcessStopIInv
<1>14. CASE StopAudio
  BY <1>14, StopAudioIInv
<1>15. CASE startEasAudio
  BY <1>15, StartEasAudioIInv
<1>16. CASE ProcessRestartInFocusAudio
  BY <1>16, ProcessRestartIInv
<1>17. CASE RestartAudio
  BY <1>17, RestartAudioIInv
<1>18. CASE UNCHANGED vars
  BY <1>18 DEF IInv, vars, programmes, focus, player, alert, TypeOK, OneStart, ClientOK,
      FlagOK, DecoderOK, Starting, AtStart, EasPlays, Started, InFocus
<1> QED
  BY <1>1, <1>2, <1>3, <1>4, <1>5, <1>6, <1>7, <1>8, <1>9, <1>10, <1>11, <1>12, <1>13, <1>14, <1>15, <1>16, <1>17, <1>18
     DEF Next, EasClient, threadFunction, eventThreadFunc

------------------------------------------------------------------------------
\* The types hold, and with them where a start and a restart of the audio may be
\* at each moment of an alert, if the client does not stop a clip that is about
\* to start (audioPlayer.cpp, IMediaPlayer::eventThreadFunc).
THEOREM InductiveInvariant == ASSUME ~StopsAnytime PROVE Spec => []IInv
<1>1. Init => IInv
  BY InitIInv
<1>2. IInv /\ [Next]_vars => IInv'
  BY NextIInv
<1> QED
  BY <1>1, <1>2, PTL DEF Spec

THEOREM TypeCorrect == ASSUME ~StopsAnytime PROVE Spec => []TypeOK
<1>1. IInv => TypeOK
  BY DEF IInv
<1> QED
  BY <1>1, InductiveInvariant, PTL

\* The one audio decoder: however the displays of the sessions are opened, closed
\* and opened again while an alert begins, repeats and ends, no session in focus
\* decodes audio while the clip plays (DisplaySession.cpp:2177).
THEOREM SilentWhileTheClipPlays ==
    ASSUME ~StopsAnytime PROVE Spec => []InFocusAudioIsSilent
<1>1. IInv => InFocusAudioIsSilent
  BY DEF IInv, DecoderOK, Started, InFocus, InFocusAudioIsSilent
<1> QED
  BY <1>1, InductiveInvariant, PTL

\* The audio is given back: once the flag is down and the restart is done, every
\* session in focus that has started decodes its audio, the one that was opened
\* in the middle of the alert too (IMediaPlayer.cpp:2270).
THEOREM SoundAfterTheClip ==
    ASSUME ~StopsAnytime PROVE Spec => []AudioIsGivenBack
<1>1. IInv => AudioIsGivenBack
  BY DEF IInv, DecoderOK, Started, InFocus, AudioIsGivenBack, Restart
<1> QED
  BY <1>1, InductiveInvariant, PTL


------------------------------------------------------------------------------
(* The screens: what the threads have left to do *)

Ops == {"stop", "close", "commit", "open", "setUp", "note", "set1080p", "connect"}
Items == Ops \X Handles
Owners == Handles \cup {"player"}

\* The order of the operations on one session, and on all.
Rank(op) == CASE op = "stop" -> 1 [] op = "close" -> 2 [] op = "commit" -> 3
              [] op = "open" -> 4 [] op = "setUp" -> 5 [] op = "note" -> 6
              [] op = "set1080p" -> 7 [] op = "connect" -> 8
Class(op) == CASE op \in {"stop", "close"} -> 1 [] op = "commit" -> 2
               [] op \notin {"stop", "close", "commit"} -> 3

Before(x, y) == IF x[2] = y[2] THEN Rank(x[1]) < Rank(y[1])
                               ELSE Class(x[1]) <= Class(y[1])

IsIn(x, w) == \E i \in 1..Len(w) : w[i] = x
InOrder(w) == \A i, j \in 1..Len(w) : i < j => Before(w[i], w[j])

\* Per session: what is left to do for it, and what of that by the player.
Left == [s \in Handles |-> {op \in Ops : IsIn(<<op, s>>, work[s]) \/ IsIn(<<op, s>>, work["player"])}]
Mine == [s \in Handles |-> {op \in Ops : IsIn(<<op, s>>, work["player"])}]

\* The sessions whose first frame is at hand.
AtWork == {s \in Handles : \E i \in 1..Len(work["media"]) : work["media"][i][2] = s}

\* A thread has the work of one session, the player's may have that of several,
\* and no session is worked on by both.
WorkOK ==
    /\ work \in [Threads -> Seq(Items)]
    /\ \A h \in Handles : \A x \in Items : IsIn(x, work[h]) => x[2] = h /\ x[1] # "commit"
    /\ \A h \in Handles : \A a, b \in Ops :
          ~(IsIn(<<a, h>>, work[h]) /\ IsIn(<<b, h>>, work["player"]))
    /\ \A t \in Owners : InOrder(work[t])
    /\ \/ work["media"] = <<>>
       \/ \E op \in {"note", "set1080p", "connect"}, s \in Handles :
             s \in Films /\ work["media"] = << <<op, s>> >>

------------------------------------------------------------------------------
(* The sequences *)

LEMMA InNone == ASSUME NEW x PROVE ~IsIn(x, <<>>)
BY DEF IsIn

LEMMA InOne ==
    ASSUME NEW x, NEW y
    PROVE  IsIn(x, <<y>>) <=> x = y
BY DEF IsIn

LEMMA InTwo ==
    ASSUME NEW x, NEW y, NEW z
    PROVE  IsIn(x, <<y, z>>) <=> x = y \/ x = z
<1>1. Len(<<y, z>>) = 2 /\ <<y, z>>[1] = y /\ <<y, z>>[2] = z
  OBVIOUS
<1>2. \A i \in 1..2 : i = 1 \/ i = 2
  OBVIOUS
<1> QED
  BY <1>1, <1>2 DEF IsIn

LEMMA InConcat ==
    ASSUME NEW S, NEW u \in Seq(S), NEW v \in Seq(S), NEW x
    PROVE  IsIn(x, u \o v) <=> IsIn(x, u) \/ IsIn(x, v)
<1> DEFINE m == Len(u)
           n == Len(v)
<1>1. PICK w : w = u \o v
  OBVIOUS
<1>2. /\ w \in Seq(S) /\ m \in Nat /\ n \in Nat /\ Len(w) = m + n
      /\ \A i \in 1..m + n : w[i] = IF i <= m THEN u[i] ELSE v[i - m]
  BY <1>1, ConcatProperties, LenProperties
<1> HIDE DEF m, n
<1>3. ASSUME IsIn(x, w) PROVE IsIn(x, u) \/ IsIn(x, v)
  <2>1. PICK i \in 1..m + n : w[i] = x
    BY <1>2, <1>3 DEF IsIn
  <2>2. CASE i <= m
    <3>1. i \in 1..m /\ u[i] = x
      BY <1>2, <2>1, <2>2
    <3> QED
      BY <3>1 DEF IsIn, m
  <2>3. CASE ~(i <= m)
    <3>1. i - m \in 1..n /\ v[i - m] = x
      BY <1>2, <2>1, <2>3
    <3> QED
      BY <3>1 DEF IsIn, n
  <2> QED
    BY <2>2, <2>3
<1>4. ASSUME IsIn(x, u) PROVE IsIn(x, w)
  <2>1. PICK i \in 1..m : u[i] = x
    BY <1>4 DEF IsIn, m
  <2>2. i \in 1..m + n /\ w[i] = x
    BY <1>2, <2>1
  <2> QED
    BY <1>2, <2>2 DEF IsIn
<1>5. ASSUME IsIn(x, v) PROVE IsIn(x, w)
  <2>1. PICK i \in 1..n : v[i] = x
    BY <1>5 DEF IsIn, n
  <2>2. i + m \in 1..m + n /\ ~(i + m <= m) /\ (i + m) - m = i
    BY <1>2, <2>1
  <2>3. w[i + m] = x
    BY <1>2, <2>1, <2>2
  <2> QED
    BY <1>2, <2>2, <2>3 DEF IsIn
<1> QED
  BY <1>1, <1>3, <1>4, <1>5

LEMMA InOrderConcat ==
    ASSUME NEW S, NEW u \in Seq(S), NEW v \in Seq(S), InOrder(u), InOrder(v),
           \A x, y : IsIn(x, u) /\ IsIn(y, v) => Before(x, y)
    PROVE  InOrder(u \o v)
<1> DEFINE m == Len(u)
           n == Len(v)
<1>1. PICK w : w = u \o v
  OBVIOUS
<1>2. /\ m \in Nat /\ n \in Nat /\ Len(w) = m + n
      /\ \A i \in 1..m + n : w[i] = IF i <= m THEN u[i] ELSE v[i - m]
  BY <1>1, ConcatProperties, LenProperties
<1> HIDE DEF m, n
<1>3. SUFFICES ASSUME NEW i \in 1..m + n, NEW j \in 1..m + n, i < j
               PROVE  Before(w[i], w[j])
  BY <1>1, <1>2 DEF InOrder
<1>4. CASE j <= m
  <2>1. i \in 1..m /\ j \in 1..m /\ w[i] = u[i] /\ w[j] = u[j]
    BY <1>2, <1>3, <1>4
  <2> QED
    BY <1>3, <2>1 DEF InOrder, m
<1>5. CASE ~(i <= m)
  <2>1. /\ i - m \in 1..n /\ j - m \in 1..n /\ i - m < j - m
        /\ w[i] = v[i - m] /\ w[j] = v[j - m]
    BY <1>2, <1>3, <1>5
  <2> QED
    BY <2>1 DEF InOrder, n
<1>6. CASE i <= m /\ ~(j <= m)
  <2>1. /\ i \in 1..m /\ j - m \in 1..n
        /\ w[i] = u[i] /\ w[j] = v[j - m]
    BY <1>2, <1>3, <1>6
  <2>2. IsIn(w[i], u) /\ IsIn(w[j], v)
    BY <2>1 DEF IsIn, m, n
  <2> QED
    BY <2>2
<1> QED
  BY <1>4, <1>5, <1>6

LEMMA Rest ==
    ASSUME NEW S, NEW w \in Seq(S), w # <<>>, InOrder(w)
    PROVE  /\ Tail(w) \in Seq(S) /\ Head(w) \in S
           /\ IsIn(Head(w), w)
           /\ InOrder(Tail(w))
           /\ \A x : IsIn(x, Tail(w)) => IsIn(x, w) /\ Before(Head(w), x)
           /\ \A x : IsIn(x, w) => x = Head(w) \/ IsIn(x, Tail(w))
<1> DEFINE n == Len(w)
<1>1. PICK r : r = Tail(w)
  OBVIOUS
<1>2. /\ n \in Nat \ {0} /\ r \in Seq(S) /\ Len(r) = n - 1
      /\ Head(w) = w[1] /\ w[1] \in S
      /\ \A i \in 1..n - 1 : r[i] = w[i + 1]
  BY <1>1, HeadTailProperties, EmptySeq
<1> HIDE DEF n
<1>3. 1 \in 1..n /\ \A i \in 1..n - 1 : i + 1 \in 1..n /\ 1 < i + 1
  BY <1>2
<1>4. InOrder(r)
  <2>1. ASSUME NEW i \in 1..n - 1, NEW j \in 1..n - 1, i < j PROVE Before(r[i], r[j])
    <3>1. i + 1 \in 1..n /\ j + 1 \in 1..n /\ i + 1 < j + 1
      BY <1>2, <2>1
    <3> QED
      BY <1>2, <3>1 DEF InOrder, n
  <2> QED
    BY <1>2, <2>1 DEF InOrder
<1>5. ASSUME NEW x, IsIn(x, r) PROVE IsIn(x, w) /\ Before(Head(w), x)
  <2>1. PICK i \in 1..n - 1 : r[i] = x
    BY <1>2, <1>5 DEF IsIn
  <2>2. i + 1 \in 1..n /\ w[i + 1] = x
    BY <1>2, <1>3, <2>1
  <2>3. Before(w[1], w[i + 1])
    BY <1>3, <2>2 DEF InOrder, n
  <2> QED
    BY <1>2, <2>2, <2>3 DEF IsIn, n
<1>6. ASSUME NEW x, IsIn(x, w) PROVE x = Head(w) \/ IsIn(x, r)
  <2>1. PICK i \in 1..n : w[i] = x
    BY <1>6 DEF IsIn, n
  <2>2. CASE i = 1
    BY <1>2, <2>1, <2>2
  <2>3. CASE i # 1
    <3>1. i - 1 \in 1..n - 1 /\ (i - 1) + 1 = i
      BY <1>2, <2>1, <2>3
    <3>2. r[i - 1] = x
      BY <1>2, <2>1, <3>1
    <3> QED
      BY <1>2, <3>1, <3>2 DEF IsIn
  <2> QED
    BY <2>2, <2>3
<1>7. IsIn(Head(w), w)
  BY <1>2, <1>3 DEF IsIn, n
<1> QED
  BY <1>1, <1>2, <1>4, <1>5, <1>6, <1>7

LEMMA NotBefore ==
    ASSUME NEW x \in Items
    PROVE  ~Before(x, x)
<1>1. x[1] \in Ops
  BY DEF Items
<1>2. Rank(x[1]) \in Nat
  BY <1>1 DEF Rank, Ops
<1> QED
  BY <1>2 DEF Before

------------------------------------------------------------------------------
(* What a step of a thread leaves *)

LEMMA Names ==
    /\ "player" \notin Handles /\ "media" \notin Handles
    /\ "player" \in Owners /\ "media" \notin Owners
    /\ Owners \subseteq Threads /\ Handles \subseteq Owners /\ "media" \in Threads
BY HandlesAssumption DEF Owners, Threads

LEMMA Item ==
    ASSUME NEW op \in Ops, NEW s \in Handles
    PROVE  /\ <<op, s>> \in Items /\ <<op, s>>[1] = op /\ <<op, s>>[2] = s
           /\ \A a, r : <<a, r>> = <<op, s>> <=> a = op /\ r = s
BY DEF Items

LEMMA LeftIs ==
    ASSUME NEW s \in Handles
    PROVE  /\ Left[s] = {op \in Ops : IsIn(<<op, s>>, work[s]) \/ IsIn(<<op, s>>, work["player"])}
           /\ Mine[s] = {op \in Ops : IsIn(<<op, s>>, work["player"])}
BY DEF Left, Mine

LEMMA LeftFacts ==
    ASSUME WorkOK, NEW s \in Handles
    PROVE  /\ Left[s] \subseteq Ops
           /\ Mine[s] \subseteq Left[s]
           /\ \A op \in Mine[s] : Left[s] \subseteq Mine[s]
           /\ "commit" \in Left[s] => "commit" \in Mine[s]
<1>1. ASSUME NEW op \in Mine[s], NEW o \in Left[s] PROVE o \in Mine[s]
  <2>1. op \in Ops /\ o \in Ops /\ IsIn(<<op, s>>, work["player"])
    BY <1>1, LeftIs
  <2>2. ~IsIn(<<o, s>>, work[s])
    BY <2>1 DEF WorkOK
  <2> QED
    BY <1>1, <2>1, <2>2, LeftIs
<1>2. ASSUME "commit" \in Left[s] PROVE "commit" \in Mine[s]
  <2>1. "commit" \in Ops
    BY DEF Ops
  <2>2. <<"commit", s>> \in Items /\ <<"commit", s>>[1] = "commit"
    BY <2>1, Item
  <2>3. ~IsIn(<<"commit", s>>, work[s])
    BY <2>2 DEF WorkOK
  <2> QED
    BY <1>2, <2>1, <2>3, LeftIs
<1> QED
  BY <1>1, <1>2, LeftIs

\* A thread has done the first thing it had to do.
LEMMA Performed ==
    ASSUME WorkOK, NEW t \in Owners, NEW s \in Handles, NEW op \in Ops,
           Take(t, op, s), Done(t)
    PROVE  /\ WorkOK' /\ AtWork' = AtWork
           /\ op \in Left[s] /\ Left'[s] = Left[s] \ {op} /\ Mine'[s] = Mine[s] \ {op}
           /\ \A o \in Left'[s] : Rank(op) < Rank(o)
           /\ \A r \in Handles : r # s => Left'[r] = Left[r] /\ Mine'[r] = Mine[r]
           /\ op \in Mine[s] => \A r \in Handles : r # s =>
                                   \A o \in Mine[r] : Class(op) <= Class(o)
<1> DEFINE w == work[t]
           v == Tail(w)
<1>1. /\ w \in Seq(Items) /\ w # <<>> /\ Head(w) = <<op, s>> /\ InOrder(w)
      /\ work \in [Threads -> Seq(Items)]
  BY Names DEF WorkOK, Take
<1>2. /\ v \in Seq(Items) /\ IsIn(<<op, s>>, w) /\ InOrder(v)
      /\ \A x : IsIn(x, v) => IsIn(x, w) /\ Before(<<op, s>>, x)
      /\ \A x : IsIn(x, w) => x = <<op, s>> \/ IsIn(x, v)
  BY <1>1, Rest
<1>3. work' = [work EXCEPT ![t] = v]
  BY DEF Done
<1> HIDE DEF v
<1>4. /\ work' \in [Threads -> Seq(Items)] /\ work'[t] = v
      /\ \A u \in Threads : u # t => work'[u] = work[u]
  BY <1>1, <1>2, <1>3, Names
<1>5. ~IsIn(<<op, s>>, v)
  BY <1>2, NotBefore, Item
<1>6. \A u \in Threads : \A x : IsIn(x, work'[u]) <=> IsIn(x, work[u]) /\ (u = t => x # <<op, s>>)
  <2>1. ASSUME NEW u \in Threads, NEW x
        PROVE  IsIn(x, work'[u]) <=> IsIn(x, work[u]) /\ (u = t => x # <<op, s>>)
    <3>1. CASE u = t
      BY <1>2, <1>4, <1>5, <3>1
    <3>2. CASE u # t
      BY <1>4, <3>2
    <3> QED
      BY <3>1, <3>2
  <2> QED
    BY <2>1
<1>7. t = s \/ t = "player"
  BY <1>2, Item DEF WorkOK, Owners
<1>8. /\ t # "player" => ~IsIn(<<op, s>>, work["player"])
      /\ t # s => ~IsIn(<<op, s>>, work[s])
  BY <1>2, <1>7 DEF WorkOK
<1>9. WorkOK'
  <2>1. ASSUME NEW h \in Handles, NEW x \in Items, IsIn(x, work'[h])
        PROVE  x[2] = h /\ x[1] # "commit"
    BY <1>6, <2>1, Names DEF WorkOK
  <2>2. ASSUME NEW h \in Handles, NEW a \in Ops, NEW b \in Ops
        PROVE  ~(IsIn(<<a, h>>, work'[h]) /\ IsIn(<<b, h>>, work'["player"]))
    BY <1>6, <2>2, Names DEF WorkOK
  <2>3. ASSUME NEW u \in Owners PROVE InOrder(work'[u])
    BY <1>2, <1>4, <2>3, Names DEF WorkOK
  <2>4. work'["media"] = work["media"]
    BY <1>4, Names
  <2> QED
    BY <1>4, <2>1, <2>2, <2>3, <2>4 DEF WorkOK
<1>10. AtWork' = AtWork
  <2>1. work'["media"] = work["media"]
    BY <1>4, Names
  <2> QED
    BY <2>1 DEF AtWork
<1>11. \A r \in Handles :
          /\ Left'[r] = {o \in Ops : IsIn(<<o, r>>, work'[r]) \/ IsIn(<<o, r>>, work'["player"])}
          /\ Mine'[r] = {o \in Ops : IsIn(<<o, r>>, work'["player"])}
  BY DEF Left, Mine
<1>12. \A r \in Handles, o \in Ops :
          <<o, r>> # <<op, s>> =>
             /\ IsIn(<<o, r>>, work'[r]) <=> IsIn(<<o, r>>, work[r])
             /\ IsIn(<<o, r>>, work'["player"]) <=> IsIn(<<o, r>>, work["player"])
  BY <1>6, Names
<1>13. ~IsIn(<<op, s>>, work'[s]) /\ ~IsIn(<<op, s>>, work'["player"])
  BY <1>6, <1>7, <1>8, Names
<1>14. \A r \in Handles : r # s => Left'[r] = Left[r] /\ Mine'[r] = Mine[r]
  <2>1. ASSUME NEW r \in Handles, r # s PROVE Left'[r] = Left[r] /\ Mine'[r] = Mine[r]
    <3>1. \A o \in Ops : <<o, r>> # <<op, s>>
      BY <2>1
    <3> QED
      BY <1>11, <1>12, <3>1, LeftIs
  <2> QED
    BY <2>1
<1>15. /\ op \in Left[s] /\ Left'[s] = Left[s] \ {op} /\ Mine'[s] = Mine[s] \ {op}
  <2>1. \A o \in Ops : o # op => <<o, s>> # <<op, s>>
    OBVIOUS
  <2>2. op \in Left[s]
    BY <1>2, <1>7, LeftIs
  <2>3. ASSUME NEW o PROVE o \in Left'[s] <=> o \in Left[s] \ {op}
    BY <1>11, <1>12, <1>13, <2>1, LeftIs
  <2>4. ASSUME NEW o PROVE o \in Mine'[s] <=> o \in Mine[s] \ {op}
    BY <1>11, <1>12, <1>13, <2>1, LeftIs
  <2> QED
    BY <2>2, <2>3, <2>4
<1>16. ASSUME NEW o \in Left'[s] PROVE Rank(op) < Rank(o)
  <2>1. o \in Ops /\ (IsIn(<<o, s>>, work'[s]) \/ IsIn(<<o, s>>, work'["player"]))
    BY <1>11, <1>16
  <2>2. IsIn(<<o, s>>, v)
    <3>1. CASE IsIn(<<o, s>>, work'[t])
      BY <1>4, <3>1
    <3>2. CASE IsIn(<<o, s>>, work'["player"]) /\ t = s
      BY <1>2, <1>6, <2>1, <3>2, Names DEF WorkOK
    <3>3. CASE IsIn(<<o, s>>, work'[s]) /\ t = "player"
      BY <1>2, <1>6, <2>1, <3>3, Names DEF WorkOK
    <3> QED
      BY <1>7, <2>1, <3>1, <3>2, <3>3
  <2>3. Before(<<op, s>>, <<o, s>>)
    BY <1>2, <2>2
  <2> QED
    BY <2>3 DEF Before
<1>17. ASSUME op \in Mine[s], NEW r \in Handles, r # s, NEW o \in Mine[r]
       PROVE  Class(op) <= Class(o)
  <2>1. t = "player"
    BY <1>8, <1>17, LeftIs
  <2>2. o \in Ops /\ IsIn(<<o, r>>, w)
    BY <1>17, <2>1, LeftIs
  <2>3. <<o, r>> # <<op, s>>
    BY <1>17
  <2>4. Before(<<op, s>>, <<o, r>>)
    BY <1>2, <2>2, <2>3
  <2> QED
    BY <1>17, <2>4 DEF Before
<1> QED
  BY <1>9, <1>10, <1>14, <1>15, <1>16, <1>17

\* It has done one step of it, which was all it had for the session.
LEMMA Continued ==
    ASSUME WorkOK, NEW t \in Owners, NEW s \in Handles, NEW op \in Ops, NEW new \in Ops,
           Take(t, op, s), Then(t, new, s), \A o \in Left[s] : o = op,
           new # "commit", Class(new) = Class(op)
    PROVE  /\ WorkOK' /\ AtWork' = AtWork
           /\ op \in Left[s] /\ new \in Left'[s] /\ \A o \in Left'[s] : o = new
           /\ \A o \in Mine'[s] : o = new
           /\ \A r \in Handles : r # s => Left'[r] = Left[r] /\ Mine'[r] = Mine[r]
<1> DEFINE w == work[t]
           v == Tail(w)
<1>1. /\ w \in Seq(Items) /\ w # <<>> /\ Head(w) = <<op, s>> /\ InOrder(w)
      /\ work \in [Threads -> Seq(Items)]
  BY Names DEF WorkOK, Take
<1>2. /\ v \in Seq(Items) /\ IsIn(<<op, s>>, w) /\ InOrder(v)
      /\ \A x : IsIn(x, v) => IsIn(x, w) /\ Before(<<op, s>>, x)
      /\ \A x : IsIn(x, w) => x = <<op, s>> \/ IsIn(x, v)
  <2>1. PICK q : q = w
    OBVIOUS
  <2>2. /\ Tail(q) \in Seq(Items) /\ IsIn(<<op, s>>, q) /\ InOrder(Tail(q))
        /\ \A x : IsIn(x, Tail(q)) => IsIn(x, q) /\ Before(<<op, s>>, x)
        /\ \A x : IsIn(x, q) => x = <<op, s>> \/ IsIn(x, Tail(q))
    <3>1. q \in Seq(Items) /\ q # <<>> /\ Head(q) = <<op, s>> /\ InOrder(q)
      BY <1>1, <2>1
    <3> HIDE DEF w
    <3> QED
      BY ONLY <3>1, Rest
  <2> QED
    BY <2>1, <2>2
<1> DEFINE u == << <<new, s>> >>
<1>3. work' = [work EXCEPT ![t] = u \o v]
  BY DEF Then
<1>4. u \in Seq(Items) /\ InOrder(u) /\ \A x : IsIn(x, u) <=> x = <<new, s>>
  <2>1. u \in Seq(Items)
    BY Item
  <2>2. InOrder(u)
    BY DEF InOrder
  <2> QED
    BY <2>1, <2>2, InOne
<1> HIDE DEF v, u
<1>5. ~IsIn(<<op, s>>, v)
  BY <1>2, NotBefore, Item
<1>6. t = s \/ t = "player"
  BY <1>2, Item DEF WorkOK, Owners
<1>7. ASSUME NEW x, IsIn(x, v) PROVE x \in Items /\ x[1] \in Ops /\ x[2] \in Handles /\ x = <<x[1], x[2]>>
  <2>1. x \in Items
    BY <1>2, <1>7, LenProperties, ElementOfSeq DEF IsIn
  <2> QED
    BY <2>1 DEF Items
<1>8. ASSUME NEW x, IsIn(x, v) PROVE x[2] # s
  <2>1. SUFFICES ASSUME x[2] = s PROVE FALSE
    OBVIOUS
  <2>2. x[1] \in Ops /\ x = <<x[1], s>>
    BY <1>7, <1>8, <2>1
  <2>3. IsIn(<<x[1], s>>, work[t])
    BY <1>2, <1>8, <2>2
  <2>4. x[1] \in Left[s]
    BY <1>6, <2>2, <2>3, LeftIs
  <2>5. x = <<op, s>>
    BY <2>2, <2>4
  <2> QED
    BY <1>5, <1>8, <2>5
<1>9. /\ u \o v \in Seq(Items) /\ InOrder(u \o v)
      /\ \A x : IsIn(x, u \o v) <=> x = <<new, s>> \/ IsIn(x, v)
  <2>1. u \o v \in Seq(Items)
    BY <1>2, <1>4, ConcatProperties
  <2>2. \A x : IsIn(x, u \o v) <=> x = <<new, s>> \/ IsIn(x, v)
    BY <1>2, <1>4, InConcat
  <2>3. ASSUME NEW x, NEW y, IsIn(x, u), IsIn(y, v) PROVE Before(x, y)
    <3>1. x = <<new, s>> /\ Before(<<op, s>>, y) /\ y[2] # s
      BY <1>2, <1>4, <1>8, <2>3
    <3> QED
      BY <3>1 DEF Before
  <2>4. InOrder(u \o v)
    BY <1>2, <1>4, <2>3, InOrderConcat
  <2> QED
    BY <2>1, <2>2, <2>4
<1>10. PICK z : z = u \o v
  OBVIOUS
<1>11. /\ work' \in [Threads -> Seq(Items)] /\ work'[t] = z
       /\ \A q \in Threads : q # t => work'[q] = work[q]
       /\ InOrder(z) /\ \A x : IsIn(x, z) <=> x = <<new, s>> \/ IsIn(x, v)
  BY <1>1, <1>3, <1>9, <1>10, Names
<1>12. WorkOK'
  <2>1. ASSUME NEW h \in Handles, NEW x \in Items, IsIn(x, work'[h])
        PROVE  x[2] = h /\ x[1] # "commit"
    <3>1. CASE h # t
      BY <1>11, <2>1, <3>1, Names DEF WorkOK
    <3>2. CASE h = t /\ x = <<new, s>>
      BY <1>6, <3>2, Names, Item
    <3>3. CASE h = t /\ IsIn(x, v)
      BY <1>2, <2>1, <3>3 DEF WorkOK
    <3> QED
      BY <1>11, <2>1, <3>1, <3>2, <3>3
  <2>2. ASSUME NEW h \in Handles, NEW a \in Ops, NEW b \in Ops,
               IsIn(<<a, h>>, work'[h]), IsIn(<<b, h>>, work'["player"])
        PROVE  FALSE
    <3>1. \A q \in Threads, c \in Ops : IsIn(<<c, h>>, work'[q]) =>
             \E d \in Ops : IsIn(<<d, h>>, work[q])
      BY <1>2, <1>11
    <3> QED
      BY <2>2, <3>1, Names DEF WorkOK
  <2>3. ASSUME NEW q \in Owners PROVE InOrder(work'[q])
    BY <1>11, <2>3, Names DEF WorkOK
  <2>4. work'["media"] = work["media"]
    BY <1>11, Names
  <2> QED
    BY <1>11, <2>1, <2>2, <2>3, <2>4 DEF WorkOK
<1>13. AtWork' = AtWork
  <2>1. work'["media"] = work["media"]
    BY <1>11, Names
  <2> QED
    BY <2>1 DEF AtWork
<1>14. \A r \in Handles :
          /\ Left'[r] = {o \in Ops : IsIn(<<o, r>>, work'[r]) \/ IsIn(<<o, r>>, work'["player"])}
          /\ Mine'[r] = {o \in Ops : IsIn(<<o, r>>, work'["player"])}
  BY DEF Left, Mine
<1>15. ASSUME NEW r \in Handles, r # s PROVE Left'[r] = Left[r] /\ Mine'[r] = Mine[r]
  <2>1. \A o \in Ops, q \in Threads : IsIn(<<o, r>>, work'[q]) <=> IsIn(<<o, r>>, work[q])
    <3>1. \A o \in Ops : <<o, r>> # <<new, s>> /\ <<o, r>> # <<op, s>>
      BY <1>15
    <3> QED
      BY <1>2, <1>11, <3>1
  <2> QED
    BY <1>14, <1>15, <2>1, LeftIs, Names
<1>16. op \in Left[s]
  BY <1>2, <1>6, LeftIs
<1>17. new \in Left'[s]
  BY <1>6, <1>11, <1>14
<1>18. ASSUME NEW o \in Left'[s] PROVE o = new
  <2>1. o \in Ops
    BY <1>14, <1>18
  <2>2. ASSUME NEW q \in Owners, q = s \/ q = "player", IsIn(<<o, s>>, work'[q]) PROVE o = new
    <3>1. CASE q = t
      BY <1>8, <1>11, <2>1, <2>2, <3>1
    <3>2. CASE q # t
      <4>1. IsIn(<<o, s>>, work[q]) /\ q # t
        BY <1>11, <2>2, <3>2, Names
      <4>2. FALSE
        BY <1>2, <1>6, <2>1, <2>2, <4>1 DEF WorkOK
      <4> QED
        BY <4>2
    <3> QED
      BY <3>1, <3>2
  <2> QED
    BY <1>14, <1>18, <2>2, Names
<1>19. ASSUME NEW o \in Mine'[s] PROVE o = new
  BY <1>14, <1>18, <1>19
<1> QED
  BY <1>12, <1>13, <1>15, <1>16, <1>17, <1>18, <1>19

\* The media thread has work on one film at most.
LEMMA MediaFacts ==
    ASSUME WorkOK
    PROVE  /\ work["media"] = <<>> => AtWork = {}
           /\ \A op : \A s \in Handles :
                 Take("media", op, s) =>
                    /\ work["media"] = << <<op, s>> >> /\ AtWork = {s} /\ s \in Films
                    /\ op \in {"note", "set1080p", "connect"}
<1>1. ASSUME work["media"] = <<>> PROVE AtWork = {}
  BY <1>1 DEF AtWork
<1>2. ASSUME NEW op, NEW s \in Handles, Take("media", op, s)
      PROVE  /\ work["media"] = << <<op, s>> >> /\ AtWork = {s} /\ s \in Films
             /\ op \in {"note", "set1080p", "connect"}
  <2>1. PICK o \in {"note", "set1080p", "connect"}, r \in Handles :
           r \in Films /\ work["media"] = << <<o, r>> >>
    BY <1>2 DEF WorkOK, Take
  <2>2. o = op /\ r = s
    BY <1>2, <2>1 DEF Take
  <2>3. AtWork = {s}
    BY <2>1, <2>2 DEF AtWork
  <2> QED
    BY <2>1, <2>2, <2>3
<1> QED
  BY <1>1, <1>2

\* What the media thread has to do is of no other thread's business.
LEMMA MediaGiven ==
    ASSUME WorkOK, NEW w, work' = [work EXCEPT !["media"] = w],
           \/ w = <<>>
           \/ \E op \in {"note", "set1080p", "connect"}, s \in Handles :
                 s \in Films /\ w = << <<op, s>> >>
    PROVE  /\ WorkOK' /\ Left' = Left /\ Mine' = Mine
           /\ work'["media"] = w
<1>1. w \in Seq(Items)
  <2>1. {"note", "set1080p", "connect"} \subseteq Ops
    BY DEF Ops
  <2>2. ASSUME NEW op \in Ops, NEW s \in Handles PROVE << <<op, s>> >> \in Seq(Items)
    BY Item
  <2>3. <<>> \in Seq(Items)
    OBVIOUS
  <2>4. CASE w = <<>>
    BY <2>3, <2>4
  <2>5. CASE w # <<>>
    <3>1. PICK op \in {"note", "set1080p", "connect"}, s \in Handles : w = << <<op, s>> >>
      BY <2>5
    <3>2. op \in Ops
      BY <2>1
    <3> QED
      BY <2>2, <3>1, <3>2
  <2> QED
    BY <2>4, <2>5
<1>2. work \in [Threads -> Seq(Items)]
  BY DEF WorkOK
<1>3. /\ work' \in [Threads -> Seq(Items)] /\ work'["media"] = w
      /\ \A t \in Owners : work'[t] = work[t]
  BY <1>1, <1>2, Names
<1>4. WorkOK'
  BY <1>3, Names DEF WorkOK
<1>5. Left' = Left /\ Mine' = Mine
  BY <1>3, Names DEF Left, Mine
<1> QED
  BY <1>3, <1>4, <1>5

LEMMA WorkUnchanged ==
    ASSUME WorkOK, UNCHANGED work
    PROVE  WorkOK' /\ Left' = Left /\ Mine' = Mine /\ AtWork' = AtWork
BY DEF WorkOK, Left, Mine, AtWork

\* A thread is given something to do, on sessions nobody works on.
LEMMA Given ==
    ASSUME WorkOK, NEW t \in Owners, NEW w \in Seq(Items), InOrder(w),
           work' = [work EXCEPT ![t] = w],
           \A x \in Items : IsIn(x, w) => Left[x[2]] = {},
           t \in Handles =>
              Left[t] = {} /\ \A x \in Items : IsIn(x, w) => x[2] = t /\ x[1] # "commit",
           t = "player" => work["player"] = <<>>
    PROVE  /\ WorkOK' /\ AtWork' = AtWork
           /\ \A r \in Handles :
                 /\ Left'[r] = Left[r] \cup {o \in Ops : IsIn(<<o, r>>, w)}
                 /\ t = "player" => Mine[r] = {} /\ Mine'[r] = {o \in Ops : IsIn(<<o, r>>, w)}
                 /\ t # "player" => Mine'[r] = Mine[r]
<1>1. work \in [Threads -> Seq(Items)]
  BY DEF WorkOK
<1>2. /\ work' \in [Threads -> Seq(Items)] /\ work'[t] = w
      /\ \A q \in Threads : q # t => work'[q] = work[q]
  BY <1>1, Names
<1>3. t \in Handles \/ t = "player"
  BY DEF Owners
<1>4. ASSUME NEW o \in Ops, NEW r \in Handles, r = t \/ t = "player" PROVE ~IsIn(<<o, r>>, work[t])
  <2>1. CASE t = "player"
    BY <2>1, InNone
  <2>2. CASE t \in Handles
    <3>1. Left[t] = {} /\ r = t
      BY <2>2, <1>4, Names
    <3> QED
      BY <2>2, <3>1, LeftIs
  <2> QED
    BY <1>3, <2>1, <2>2
<1>5. \A r \in Handles :
          /\ Left'[r] = {o \in Ops : IsIn(<<o, r>>, work'[r]) \/ IsIn(<<o, r>>, work'["player"])}
          /\ Mine'[r] = {o \in Ops : IsIn(<<o, r>>, work'["player"])}
  BY DEF Left, Mine
<1>6. WorkOK'
  <2>1. ASSUME NEW h \in Handles, NEW x \in Items, IsIn(x, work'[h])
        PROVE  x[2] = h /\ x[1] # "commit"
    <3>1. CASE h = t
      BY <1>2, <2>1, <3>1
    <3>2. CASE h # t
      BY <1>2, <2>1, <3>2, Names DEF WorkOK
    <3> QED
      BY <3>1, <3>2
  <2>2. ASSUME NEW h \in Handles, NEW a \in Ops, NEW b \in Ops,
               IsIn(<<a, h>>, work'[h]), IsIn(<<b, h>>, work'["player"])
        PROVE  FALSE
    <3>1. CASE t = "player"
      <4>1. IsIn(<<b, h>>, w) /\ IsIn(<<a, h>>, work[h])
        BY <1>2, <2>2, <3>1, Names
      <4>2. Left[<<b, h>>[2]] = {} /\ <<b, h>>[2] = h
        BY <4>1, Item
      <4> QED
        BY <4>1, <4>2, LeftIs
    <3>2. CASE t = h
      <4>1. IsIn(<<b, h>>, work["player"]) /\ Left[h] = {}
        BY <1>2, <2>2, <3>2, Names
      <4> QED
        BY <4>1, LeftIs
    <3>3. CASE t # h /\ t # "player"
      BY <1>2, <2>2, <3>3, Names DEF WorkOK
    <3> QED
      BY <3>1, <3>2, <3>3
  <2>3. ASSUME NEW q \in Owners PROVE InOrder(work'[q])
    BY <1>2, <2>3, Names DEF WorkOK
  <2>4. work'["media"] = work["media"]
    BY <1>2, Names
  <2> QED
    BY <1>2, <2>1, <2>2, <2>3, <2>4 DEF WorkOK
<1>7. AtWork' = AtWork
  <2>1. work'["media"] = work["media"]
    BY <1>2, Names
  <2> QED
    BY <2>1 DEF AtWork
<1>8. ASSUME NEW r \in Handles
      PROVE  /\ Left'[r] = Left[r] \cup {o \in Ops : IsIn(<<o, r>>, w)}
             /\ t = "player" => Mine[r] = {} /\ Mine'[r] = {o \in Ops : IsIn(<<o, r>>, w)}
             /\ t # "player" => Mine'[r] = Mine[r]
  <2>1. CASE t = "player"
    <3>1. work'["player"] = w /\ work'[r] = work[r]
      BY <1>2, <2>1, Names
    <3>2. \A o \in Ops : ~IsIn(<<o, r>>, work["player"])
      BY <1>4, <2>1
    <3> QED
      BY <1>5, <2>1, <3>1, <3>2, LeftIs
  <2>2. CASE t = r
    <3>1. work'["player"] = work["player"] /\ work'[r] = w
      BY <1>2, <2>2, Names
    <3>2. \A o \in Ops : ~IsIn(<<o, r>>, work[r])
      BY <1>4, <2>2
    <3> QED
      BY <1>5, <2>2, <3>1, <3>2, LeftIs, Names
  <2>3. CASE t # "player" /\ t # r
    <3>1. work'["player"] = work["player"] /\ work'[r] = work[r]
      BY <1>2, <2>3, Names
    <3>2. \A o \in Ops : ~IsIn(<<o, r>>, w)
      <4>1. ASSUME NEW o \in Ops, IsIn(<<o, r>>, w) PROVE FALSE
        BY <1>3, <2>3, <4>1, Item
      <4> QED
        BY <4>1
    <3> QED
      BY <1>5, <2>3, <3>1, <3>2, LeftIs
  <2> QED
    BY <2>1, <2>2, <2>3
<1> QED
  BY <1>6, <1>7, <1>8

------------------------------------------------------------------------------
(* What a thread is given *)

LEMMA CloseWorkIs ==
    ASSUME NEW s \in Handles
    PROVE  /\ CloseWork(s) \in Seq(Items) /\ InOrder(CloseWork(s))
           /\ \A x : IsIn(x, CloseWork(s)) <=>
                        disp[s] # "none" /\ (x = <<"stop", s>> \/ x = <<"close", s>>)
<1>1. CASE disp[s] = "none"
  <2>1. CloseWork(s) = <<>>
    BY <1>1 DEF CloseWork
  <2> QED
    BY <1>1, <2>1, InNone DEF InOrder
<1>2. CASE disp[s] # "none"
  <2>1. CloseWork(s) = << <<"stop", s>>, <<"close", s>> >>
    BY <1>2 DEF CloseWork
  <2>2. <<"stop", s>> \in Items /\ <<"close", s>> \in Items
    BY DEF Items, Ops
  <2>3. Before(<<"stop", s>>, <<"close", s>>)
    BY DEF Before, Rank
  <2>4. ASSUME NEW w, w = CloseWork(s) PROVE w \in Seq(Items) /\ InOrder(w)
    <3>1. w \in Seq(Items) /\ Len(w) = 2 /\ w[1] = <<"stop", s>> /\ w[2] = <<"close", s>>
      BY <2>1, <2>2, <2>4
    <3>2. \A i, j \in 1..2 : i < j => i = 1 /\ j = 2
      OBVIOUS
    <3> QED
      BY <2>3, <3>1, <3>2 DEF InOrder
  <2>5. \A x : IsIn(x, CloseWork(s)) <=> x = <<"stop", s>> \/ x = <<"close", s>>
    BY <2>1, InTwo
  <2> QED
    BY <1>2, <2>4, <2>5
<1> QED
  BY <1>1, <1>2

LEMMA OneIsOrdered ==
    ASSUME NEW op \in Ops, NEW s \in Handles
    PROVE  << <<op, s>> >> \in Seq(Items) /\ InOrder(<< <<op, s>> >>)
<1>1. << <<op, s>> >> \in Seq(Items)
  BY Item
<1>2. InOrder(<< <<op, s>> >>)
  BY DEF InOrder
<1> QED
  BY <1>1, <1>2

LEMMA ConnectWorkIs ==
    ASSUME NEW s \in Handles
    PROVE  /\ ConnectWork(s) = << <<IF s \in Films THEN "note" ELSE "connect", s>> >>
           /\ ConnectWork(s) \in Seq(Items) /\ InOrder(ConnectWork(s))
           /\ \A x : IsIn(x, ConnectWork(s)) <=>
                        x = <<IF s \in Films THEN "note" ELSE "connect", s>>
<1>1. (IF s \in Films THEN "note" ELSE "connect") \in Ops
  BY DEF Ops
<1> QED
  BY <1>1, OneIsOrdered, InOne DEF ConnectWork

LEMMA StartWorkIs ==
    ASSUME NEW s \in Handles
    PROVE  /\ StartWork(s) \in Seq(Items) /\ InOrder(StartWork(s))
           /\ \A x : IsIn(x, StartWork(s)) <=>
                        \/ x = <<"setUp", s>>
                        \/ s \in Films /\ x = <<"open", s>>
                        \/ s \notin Films /\ x = <<"connect", s>>
<1>1. "open" \in Ops /\ "setUp" \in Ops /\ "connect" \in Ops
  BY DEF Ops
<1>2. Before(<<"open", s>>, <<"setUp", s>>) /\ Before(<<"setUp", s>>, <<"connect", s>>)
  BY DEF Before, Rank
<1>3. CASE s \in Films
  <2>1. StartWork(s) = << <<"open", s>>, <<"setUp", s>> >>
    BY <1>3 DEF StartWork
  <2>2. ASSUME NEW w, w = StartWork(s) PROVE w \in Seq(Items) /\ InOrder(w)
    <3>1. w \in Seq(Items) /\ Len(w) = 2 /\ w[1] = <<"open", s>> /\ w[2] = <<"setUp", s>>
      BY <1>1, <2>1, <2>2, Item
    <3>2. \A i, j \in 1..2 : i < j => i = 1 /\ j = 2
      OBVIOUS
    <3> QED
      BY <1>2, <3>1, <3>2 DEF InOrder
  <2>3. \A x : IsIn(x, StartWork(s)) <=> x = <<"open", s>> \/ x = <<"setUp", s>>
    BY <2>1, InTwo
  <2> QED
    BY <1>3, <2>2, <2>3
<1>4. CASE s \notin Films
  <2>1. StartWork(s) = << <<"setUp", s>> >> \o ConnectWork(s)
    BY <1>4 DEF StartWork
  <2>2. \A x : IsIn(x, ConnectWork(s)) <=> x = <<"connect", s>>
    BY <1>4, ConnectWorkIs
  <2>3. \A x, y : IsIn(x, << <<"setUp", s>> >>) /\ IsIn(y, ConnectWork(s)) => Before(x, y)
    BY <1>2, <2>2, InOne
  <2>4. /\ << <<"setUp", s>> >> \in Seq(Items) /\ InOrder(<< <<"setUp", s>> >>)
        /\ ConnectWork(s) \in Seq(Items) /\ InOrder(ConnectWork(s))
    BY <1>1, OneIsOrdered, ConnectWorkIs
  <2>5. StartWork(s) \in Seq(Items)
    BY <2>1, <2>4, ConcatProperties
  <2>6. InOrder(StartWork(s))
    BY <2>1, <2>3, <2>4, InOrderConcat
  <2>7. \A x : IsIn(x, StartWork(s)) <=> IsIn(x, << <<"setUp", s>> >>) \/ IsIn(x, ConnectWork(s))
    <3>1. ASSUME NEW u \in Seq(Items), u = << <<"setUp", s>> >>, NEW x
          PROVE  IsIn(x, StartWork(s)) <=> IsIn(x, u) \/ IsIn(x, ConnectWork(s))
      <4>1. IsIn(x, u \o ConnectWork(s)) <=> IsIn(x, u) \/ IsIn(x, ConnectWork(s))
        BY <2>4, InConcat
      <4> QED
        BY <2>1, <3>1, <4>1
    <3> QED
      BY <2>4, <3>1
  <2>8. \A x : IsIn(x, << <<"setUp", s>> >>) <=> x = <<"setUp", s>>
    BY InOne
  <2>9. \A x : IsIn(x, StartWork(s)) <=> x = <<"setUp", s>> \/ x = <<"connect", s>>
    BY <2>2, <2>7, <2>8
  <2>10. \A x : IsIn(x, StartWork(s)) <=>
             \/ x = <<"setUp", s>>
             \/ s \in Films /\ x = <<"open", s>>
             \/ s \notin Films /\ x = <<"connect", s>>
    BY <1>4, <2>9
  <2> QED
    BY <2>5, <2>6, <2>10
<1> QED
  BY <1>3, <1>4

\* One piece of work after another.
LEMMA Then2 ==
    ASSUME NEW u \in Seq(Items), NEW v \in Seq(Items), InOrder(u), InOrder(v),
           \A x, y : IsIn(x, u) /\ IsIn(y, v) => Before(x, y)
    PROVE  /\ u \o v \in Seq(Items) /\ InOrder(u \o v)
           /\ \A x : IsIn(x, u \o v) <=> IsIn(x, u) \/ IsIn(x, v)
BY ConcatProperties, InConcat, InOrderConcat

------------------------------------------------------------------------------
(* The order of the operations on a session, and its display *)

Only(op, l) == \A o \in l : o = op

Displays == {"none", "starting", "started", "incomplete", "stopped"}

\* What may be left to do for session s, whose display is d.
Phase(l, d, s) ==
    /\ "stop" \in l => "close" \in l /\ d \in {"started", "incomplete"}
    /\ d = "stopped" <=> "close" \in l /\ "stop" \notin l
    /\ "commit" \in l => "setUp" \in l /\ (s \in Films => "open" \in l)
    /\ "open" \in l => s \in Films /\ "setUp" \in l
    /\ "commit" \in l \/ "open" \in l => "close" \in l \/ d = "none"
    /\ s \in Films /\ "setUp" \in l /\ "open" \notin l => d = "starting"
    /\ s \notin Films /\ "setUp" \in l => "connect" \in l /\ ("close" \in l \/ d = "none")
    /\ s \in Films /\ d = "starting" => "setUp" \in l /\ "open" \notin l
    /\ s \notin Films /\ d = "starting" => "setUp" \notin l /\ "connect" \in l
    /\ s \notin Films /\ "connect" \in l /\ "setUp" \notin l =>
          Only("connect", l) /\ d \in {"starting", "started", "incomplete"}
    /\ "note" \in l \/ "set1080p" \in l => s \in Films
    /\ s \in Films => \A o \in {"note", "set1080p", "connect"} :
                  o \in l => Only(o, l) /\ d \in {"started", "incomplete"}

\* The first thing that was left to do is done.
Follows(l, op, m) == op \in l /\ m = l \ {op} /\ \A o \in m : Rank(op) < Rank(o)

LEMMA Ranks ==
    /\ Rank("stop") = 1 /\ Rank("close") = 2 /\ Rank("commit") = 3 /\ Rank("open") = 4
    /\ Rank("setUp") = 5 /\ Rank("note") = 6 /\ Rank("set1080p") = 7 /\ Rank("connect") = 8
    /\ Class("stop") = 1 /\ Class("close") = 1 /\ Class("commit") = 2 /\ Class("open") = 3
    /\ Class("setUp") = 3 /\ Class("note") = 3 /\ Class("set1080p") = 3 /\ Class("connect") = 3
BY DEF Rank, Class

LEMMA PhaseIdle ==
    ASSUME NEW d \in Displays, NEW s, Phase({}, d, s)
    PROVE  d \in {"none", "started", "incomplete"}
BY DEF Phase, Displays

LEMMA PhaseStop ==
    ASSUME NEW l \in SUBSET Ops, NEW m, NEW d \in Displays, NEW s,
           Phase(l, d, s), Follows(l, "stop", m)
    PROVE  Phase(m, "stopped", s) /\ d \in {"started", "incomplete"}
BY DEF Phase, Follows, Only

LEMMA PhaseClose ==
    ASSUME NEW l \in SUBSET Ops, NEW m, NEW d \in Displays, NEW s,
           Phase(l, d, s), Follows(l, "close", m)
    PROVE  Phase(m, "none", s) /\ d = "stopped"
<1>1. "stop" \notin m /\ "stop" \notin l
  BY Ranks DEF Follows
<1>2. d = "stopped" /\ \A o : o \in m <=> o \in l /\ o # "close"
  BY <1>1 DEF Follows, Phase
<1> QED
  BY <1>1, <1>2 DEF Phase, Follows, Only

LEMMA PhaseCommit ==
    ASSUME NEW l \in SUBSET Ops, NEW m, NEW d \in Displays, NEW s,
           Phase(l, d, s), Follows(l, "commit", m)
    PROVE  Phase(m, d, s) /\ d = "none" /\ "setUp" \in m
<1>1. "stop" \notin m /\ "close" \notin m /\ \A o : o \in m <=> o \in l /\ o # "commit"
  BY Ranks DEF Follows
<1>2. "stop" \notin l /\ "close" \notin l /\ d = "none" /\ "setUp" \in l
  BY <1>1 DEF Follows, Phase
<1> QED
  BY <1>1, <1>2 DEF Phase, Follows, Only

LEMMA PhaseOpen ==
    ASSUME NEW l \in SUBSET Ops, NEW m, NEW d \in Displays, NEW s,
           Phase(l, d, s), Follows(l, "open", m)
    PROVE  Phase(m, "starting", s) /\ d = "none" /\ s \in Films
<1>1. /\ "stop" \notin m /\ "close" \notin m /\ "commit" \notin m
      /\ \A o : o \in m <=> o \in l /\ o # "open"
  BY Ranks DEF Follows
<1>2. "stop" \notin l /\ "close" \notin l /\ d = "none" /\ "setUp" \in l /\ s \in Films
  BY <1>1 DEF Follows, Phase
<1> QED
  BY <1>1, <1>2 DEF Phase, Follows, Only

LEMMA PhaseSetUp ==
    ASSUME NEW l \in SUBSET Ops, NEW m, NEW d \in Displays, NEW s,
           Phase(l, d, s), Follows(l, "setUp", m)
    PROVE  /\ Phase(m, IF s \in Films THEN "started" ELSE "starting", s)
           /\ d = IF s \in Films THEN "starting" ELSE "none"
           /\ "commit" \notin l
<1>1. /\ "stop" \notin m /\ "close" \notin m /\ "commit" \notin m /\ "open" \notin m
      /\ \A o : o \in m <=> o \in l /\ o # "setUp"
  BY Ranks DEF Follows
<1>2. /\ "stop" \notin l /\ "close" \notin l /\ "commit" \notin l /\ "open" \notin l
      /\ d = IF s \in Films THEN "starting" ELSE "none"
  BY <1>1 DEF Follows, Phase
<1>3. CASE s \in Films
  <2>1. "note" \notin l /\ "set1080p" \notin l /\ "connect" \notin l
    BY <1>2, <1>3 DEF Phase, Follows
  <2> QED
    BY <1>1, <1>2, <1>3, <2>1 DEF Phase, Follows, Only
<1>4. CASE s \notin Films
  <2>1. "note" \notin l /\ "set1080p" \notin l /\ "connect" \in l
    BY <1>4 DEF Phase, Follows
  <2>2. Only("connect", m)
    BY <1>1, <2>1 DEF Only, Ops, Follows
  <2> QED
    BY <1>1, <1>2, <1>4, <2>1, <2>2 DEF Phase, Follows
<1> QED
  BY <1>3, <1>4

LEMMA PhaseConnect ==
    ASSUME NEW l \in SUBSET Ops, NEW m, NEW d \in Displays, NEW s,
           Phase(l, d, s), Follows(l, "connect", m)
    PROVE  /\ \A e \in {"started", "incomplete"} : Phase(m, e, s)
           /\ d \in {"starting", "started", "incomplete"}
           /\ s \in Films => d # "starting"
<1>1. \A o \in m : o \in Ops /\ 8 < Rank(o)
  BY Ranks DEF Follows
<1>2. \A o \in Ops : ~(8 < Rank(o))
  BY Ranks DEF Ops
<1>3. \A o : o \in m <=> FALSE
  BY <1>1, <1>2
<1>4. \A o : o \in l <=> o = "connect"
  BY <1>3 DEF Follows
<1> QED
  BY <1>3, <1>4 DEF Phase, Only

LEMMA PhaseOnly ==
    ASSUME NEW m, NEW d \in {"started", "incomplete"},
           NEW op \in {"note", "set1080p", "connect"}, NEW o \in m, Only(op, m),
           NEW s, s \in Films \/ op = "connect"
    PROVE  Phase(m, d, s)
BY DEF Phase, Only

\* A display is closed, moved and started again, or some of that.
LEMMA PhaseGiven ==
    ASSUME NEW m, NEW d \in {"none", "started", "incomplete"}, NEW s,
           NEW commits \in BOOLEAN, NEW starts \in BOOLEAN,
           commits => starts,
           \A o : o \in m <=> \/ d # "none" /\ o \in {"stop", "close"}
                              \/ commits /\ o = "commit"
                              \/ starts /\ o = "setUp"
                              \/ starts /\ s \in Films /\ o = "open"
                              \/ starts /\ s \notin Films /\ o = "connect"
    PROVE  Phase(m, d, s)
BY DEF Phase, Only

------------------------------------------------------------------------------
(* The handles *)

Settings == [audioFocus : {"unset", "main", "pip"}, shown : BOOLEAN,
             cc : BOOLEAN, sound : Sounds \cup {"unset"}, missed : BOOLEAN]

Flags == [main : BOOLEAN, pip : BOOLEAN]

\* Layers have one handle each, and it is told so; the captions are those of the
\* main one.
LayersOK ==
    /\ \A s, t \in Handles : s # t /\ pgr[s].audioFocus # "unset" =>
          pgr[s].audioFocus # pgr[t].audioFocus
    /\ \A f \in {"main", "pip"} :
          mIsOutputStarted[f] <=> \E s \in Handles : pgr[s].shown /\ pgr[s].audioFocus = f
    /\ \A s \in Handles :
          /\ pgr[s].shown => pgr[s].audioFocus # "unset"
          /\ out[s] => pgr[s].shown
          /\ pgr[s].cc => /\ pgr[s].audioFocus = "main" /\ mMainScreenPgrHandle = s
                          /\ isClosedCaptionEnabled
          /\ pgr[s].shown /\ pgr[s].audioFocus = "main" =>
                /\ mMainScreenPgrHandle = s
                /\ isClosedCaptionEnabled => pgr[s].cc
          /\ mMainScreenPgrHandle = s => pgr[s].audioFocus = "main"

LayersTyped ==
    /\ pgr \in [Handles -> Settings]
    /\ mMainScreenPgrHandle \in Handles \cup {NoHandle}
    /\ mIsOutputStarted \in Flags
    /\ isClosedCaptionEnabled \in BOOLEAN
    /\ out \in [Handles -> BOOLEAN]

LEMMA FlagIs ==
    ASSUME NEW m \in Flags, NEW f \in {"main", "pip"}
    PROVE  m[f] \in BOOLEAN
BY DEF Flags

LEMMA SettingsOf ==
    ASSUME NEW p \in [Handles -> Settings], NEW t \in Handles
    PROVE  /\ p[t] \in Settings /\ p[t].audioFocus \in {"unset", "main", "pip"}
           /\ p[t].shown \in BOOLEAN /\ p[t].cc \in BOOLEAN /\ p[t].missed \in BOOLEAN
           /\ p[t].sound \in Sounds \cup {"unset"}
BY DEF Settings

\* What an operation leaves as it is, of every handle.
SoundSame(p, q) == \A t \in Handles : q[t].sound = p[t].sound /\ q[t].missed = p[t].missed
FocusSame(p, q) == \A t \in Handles : q[t].audioFocus = p[t].audioFocus

\* The layer that a handle is on has it to itself.
LEMMA LayerOf ==
    ASSUME LayersOK, LayersTyped, NEW h \in Handles, pgr[h].audioFocus # "unset"
    PROVE  /\ pgr[h].audioFocus \in {"main", "pip"}
           /\ mIsOutputStarted[pgr[h].audioFocus] <=> pgr[h].shown
           /\ \A t \in Handles : t # h => pgr[t].audioFocus # pgr[h].audioFocus
<1>1. pgr[h].audioFocus \in {"main", "pip"}
  BY SettingsOf DEF LayersTyped
<1> QED
  BY <1>1 DEF LayersOK

LEMMA Frozen ==
    ASSUME LayersOK, LayersTyped, NEW h \in Handles, NEW film \in BOOLEAN,
           pgr[h].audioFocus # "unset", freezeVideo(h, film), out' = [out EXCEPT ![h] = FALSE]
    PROVE  /\ LayersOK' /\ LayersTyped' /\ FocusSame(pgr, pgr') /\ SoundSame(pgr, pgr')
           /\ ~pgr'[h].shown
           /\ \A t \in Handles : pgr'[t].shown => pgr[t].shown
<1>0. PICK f : f = pgr[h].audioFocus
  OBVIOUS
<1>1. /\ f \in {"main", "pip"} /\ (mIsOutputStarted[f] <=> pgr[h].shown)
      /\ \A t \in Handles : t # h => pgr[t].audioFocus # f
  BY <1>0, LayerOf
<1>2. (IF pgr[h].audioFocus = "main" THEN "main" ELSE "pip") = f
  BY <1>0, <1>1
<1>3. /\ pgr \in [Handles -> Settings] /\ mIsOutputStarted \in Flags
      /\ out' \in [Handles -> BOOLEAN] /\ ~out'[h]
      /\ \A t \in Handles : out'[t] => out[t]
      /\ UNCHANGED <<mMainScreenPgrHandle, isClosedCaptionEnabled>>
  BY DEF LayersTyped, freezeVideo
<1>4. CASE mIsOutputStarted[f]
  <2>1. /\ mIsOutputStarted' = [mIsOutputStarted EXCEPT ![f] = FALSE]
        /\ pgr' = [pgr EXCEPT ![h].shown = FALSE, ![h].cc = FALSE]
    BY <1>2, <1>4 DEF freezeVideo
  <2>2. /\ mIsOutputStarted' \in Flags /\ ~mIsOutputStarted'[f]
        /\ \A g \in {"main", "pip"} : g # f => mIsOutputStarted'[g] = mIsOutputStarted[g]
    <3>1. PICK n : n = [mIsOutputStarted EXCEPT ![f] = FALSE]
      OBVIOUS
    <3>2. f \in {"main", "pip"} /\ mIsOutputStarted \in Flags /\ FALSE \in BOOLEAN
      BY <1>1, <1>3
    <3>3. n \in Flags /\ n[f] = FALSE /\ \A g \in {"main", "pip"} : g # f => n[g] = mIsOutputStarted[g]
      BY ONLY <3>1, <3>2 DEF Flags
    <3> QED
      BY <2>1, <3>1, <3>3
  <2>3. PICK q : q = pgr'
    OBVIOUS
  <2>4. /\ q \in [Handles -> Settings]
        /\ \A t \in Handles : t # h => q[t] = pgr[t]
        /\ q[h].shown = FALSE /\ q[h].cc = FALSE
        /\ \A t \in Handles : /\ q[t].audioFocus = pgr[t].audioFocus
                              /\ q[t].sound = pgr[t].sound /\ q[t].missed = pgr[t].missed
    <3>1. PICK c : c = [pgr[h] EXCEPT !.shown = FALSE, !.cc = FALSE]
      OBVIOUS
    <3>2. q = [pgr EXCEPT ![h] = c]
      BY <2>1, <2>3, <3>1
    <3>3. /\ c \in Settings /\ c.shown = FALSE /\ c.cc = FALSE
          /\ c.audioFocus = pgr[h].audioFocus /\ c.sound = pgr[h].sound
          /\ c.missed = pgr[h].missed
      <4>1. pgr[h] \in Settings
        BY <1>3
      <4> QED
        BY <3>1, <4>1 DEF Settings
    <3>4. q \in [Handles -> Settings] /\ q[h] = c /\ \A t \in Handles : t # h => q[t] = pgr[t]
      BY <1>3, <3>2, <3>3
    <3> QED
      BY <3>3, <3>4
  <2>5. LayersTyped'
    BY <1>3, <2>2, <2>3, <2>4 DEF LayersTyped
  <2>6. LayersOK'
    <3>1. \A s, t \in Handles : s # t /\ q[s].audioFocus # "unset" =>
             q[s].audioFocus # q[t].audioFocus
      BY <2>4 DEF LayersOK
    <3>2. ASSUME NEW g \in {"main", "pip"}
          PROVE  mIsOutputStarted'[g] <=> \E s \in Handles : q[s].shown /\ q[s].audioFocus = g
      <4>1. CASE g = f
        BY <1>0, <1>1, <2>2, <2>4, <4>1
      <4>2. CASE g # f
        <5>1. \A s \in Handles : q[s].shown /\ q[s].audioFocus = g <=>
                                 pgr[s].shown /\ pgr[s].audioFocus = g
          BY <1>0, <2>4, <4>2
        <5>2. mIsOutputStarted[g] <=> \E s \in Handles : pgr[s].shown /\ pgr[s].audioFocus = g
          BY DEF LayersOK
        <5> QED
          BY <2>2, <4>2, <5>1, <5>2
      <4> QED
        BY <4>1, <4>2
    <3>3. ASSUME NEW s \in Handles
          PROVE  /\ q[s].shown => q[s].audioFocus # "unset"
                 /\ out'[s] => q[s].shown
                 /\ q[s].cc => /\ q[s].audioFocus = "main" /\ mMainScreenPgrHandle = s
                               /\ isClosedCaptionEnabled
                 /\ q[s].shown /\ q[s].audioFocus = "main" =>
                       /\ mMainScreenPgrHandle = s
                       /\ isClosedCaptionEnabled => q[s].cc
                 /\ mMainScreenPgrHandle = s => q[s].audioFocus = "main"
      BY <1>3, <2>4 DEF LayersOK
    <3> QED
      BY <1>3, <2>3, <3>1, <3>2, <3>3 DEF LayersOK
  <2> QED
    BY <2>3, <2>4, <2>5, <2>6 DEF FocusSame, SoundSame
<1>5. CASE ~mIsOutputStarted[f]
  <2>1. UNCHANGED <<mIsOutputStarted, pgr>>
    BY <1>2, <1>5 DEF freezeVideo
  <2>2. ~pgr[h].shown
    BY <1>1, <1>5
  <2>3. LayersTyped'
    BY <1>3, <2>1 DEF LayersTyped
  <2>4. LayersOK'
    BY <1>3, <2>1, <2>2 DEF LayersOK
  <2> QED
    BY <2>1, <2>2, <2>3, <2>4 DEF FocusSame, SoundSame
<1> QED
  BY <1>4, <1>5

LEMMA NewSettingsAre ==
    /\ NewSettings \in Settings /\ NewSettings.audioFocus = "unset" /\ ~NewSettings.shown
    /\ ~NewSettings.cc
BY DEF NewSettings, Settings

LEMMA Disconnected ==
    ASSUME LayersOK, LayersTyped, NEW h \in Handles, disconnectOutput(h), UNCHANGED out,
           ~pgr[h].shown
    PROVE  /\ LayersOK' /\ LayersTyped'
           /\ pgr'[h].audioFocus = "unset" /\ \A t \in Handles : t # h => pgr'[t] = pgr[t]
<1>1. PICK q : q = pgr'
  OBVIOUS
<1>2. PICK n : n = NewSettings
  OBVIOUS
<1>3. /\ q = [pgr EXCEPT ![h] = n] /\ n \in Settings /\ n.audioFocus = "unset" /\ ~n.shown /\ ~n.cc
  BY <1>1, <1>2, NewSettingsAre DEF disconnectOutput, release
<1>4. /\ q \in [Handles -> Settings] /\ q[h] = n /\ \A t \in Handles : t # h => q[t] = pgr[t]
  BY <1>3, NewSettingsAre DEF LayersTyped
<1>5. /\ UNCHANGED <<mIsOutputStarted, isClosedCaptionEnabled, out>>
      /\ mMainScreenPgrHandle' = IF mMainScreenPgrHandle = h THEN NoHandle
                                                             ELSE mMainScreenPgrHandle
  BY DEF disconnectOutput
<1>6. LayersTyped'
  BY <1>1, <1>4, <1>5 DEF LayersTyped
<1>7. LayersOK'
  <2>1. \A s, t \in Handles : s # t /\ q[s].audioFocus # "unset" =>
           q[s].audioFocus # q[t].audioFocus
    <3>1. ASSUME NEW s \in Handles, NEW t \in Handles, s # t, q[s].audioFocus # "unset"
          PROVE  q[s].audioFocus # q[t].audioFocus
      <4>1. s # h /\ q[s] = pgr[s]
        BY <1>3, <1>4, <3>1
      <4>2. CASE t = h
        BY <1>3, <1>4, <3>1, <4>2
      <4>3. CASE t # h
        BY <1>4, <3>1, <4>1, <4>3 DEF LayersOK
      <4> QED
        BY <4>2, <4>3
    <3> QED
      BY <3>1
  <2>2. ASSUME NEW f \in {"main", "pip"}
        PROVE  mIsOutputStarted[f] <=> \E s \in Handles : q[s].shown /\ q[s].audioFocus = f
    <3>1. \A s \in Handles : q[s].shown /\ q[s].audioFocus = f <=>
                             pgr[s].shown /\ pgr[s].audioFocus = f
      BY <1>3, <1>4
    <3> QED
      BY <3>1 DEF LayersOK
  <2>3. ASSUME NEW s \in Handles
        PROVE  /\ q[s].shown => q[s].audioFocus # "unset"
               /\ out[s] => q[s].shown
               /\ q[s].cc => /\ q[s].audioFocus = "main" /\ mMainScreenPgrHandle' = s
                             /\ isClosedCaptionEnabled
               /\ q[s].shown /\ q[s].audioFocus = "main" =>
                     /\ mMainScreenPgrHandle' = s
                     /\ isClosedCaptionEnabled => q[s].cc
               /\ mMainScreenPgrHandle' = s => q[s].audioFocus = "main"
    <3>1. CASE s = h
      BY <1>3, <1>4, <1>5, <3>1, AvpmAssumption DEF LayersOK
    <3>2. CASE s # h
      BY <1>4, <1>5, <3>2, AvpmAssumption DEF LayersOK
    <3> QED
      BY <3>1, <3>2
  <2> QED
    BY <1>1, <1>5, <2>1, <2>2, <2>3 DEF LayersOK
<1> QED
  BY <1>1, <1>3, <1>4, <1>6, <1>7

\* setCc(FALSE) on all but h, which has no captions.
LEMMA CaptionsOff ==
    ASSUME LayersOK, NEW p \in [Handles -> Settings],
           \A t \in Handles : p[t].cc => mMainScreenPgrHandle = t
    PROVE  LET q == CaptionsOn(p, FALSE)
           IN  /\ q \in [Handles -> Settings]
               /\ \A t \in Handles : /\ ~q[t].cc /\ q[t].shown = p[t].shown
                                     /\ q[t].audioFocus = p[t].audioFocus
                                     /\ q[t].sound = p[t].sound /\ q[t].missed = p[t].missed
<1> DEFINE m == mMainScreenPgrHandle
<1>1. CASE m = NoHandle
  <2>1. CaptionsOn(p, FALSE) = p /\ \A t \in Handles : ~p[t].cc
    BY <1>1, AvpmAssumption DEF CaptionsOn
  <2> QED
    BY <2>1
<1>2. CASE m # NoHandle
  <2>1. CaptionsOn(p, FALSE) = [p EXCEPT ![m].cc = FALSE]
    BY <1>2 DEF CaptionsOn
  <2>2. PICK q : q = [p EXCEPT ![m].cc = FALSE]
    OBVIOUS
  <2>3. CASE m \in Handles
    <3>1. PICK c : c = [p[m] EXCEPT !.cc = FALSE]
      OBVIOUS
    <3>2. p[m] \in Settings
      BY <2>3
    <3>3. /\ c \in Settings /\ ~c.cc /\ c.shown = p[m].shown /\ c.audioFocus = p[m].audioFocus
          /\ c.sound = p[m].sound /\ c.missed = p[m].missed
      BY <3>1, <3>2 DEF Settings
    <3>4. q = [p EXCEPT ![m] = c]
      BY <2>2, <3>1
    <3> HIDE DEF m
    <3>5. q \in [Handles -> Settings] /\ q[m] = c /\ \A t \in Handles : t # m => q[t] = p[t]
      BY <2>3, <3>3, <3>4
    <3>6. \A t \in Handles : t # m => ~p[t].cc
      BY DEF m
    <3>7. ASSUME NEW t \in Handles
          PROVE  /\ ~q[t].cc /\ q[t].shown = p[t].shown
                 /\ q[t].audioFocus = p[t].audioFocus
                 /\ q[t].sound = p[t].sound /\ q[t].missed = p[t].missed
      <4>1. CASE t = m
        BY <3>3, <3>5, <4>1
      <4>2. CASE t # m
        BY <3>5, <3>6, <4>2
      <4> QED
        BY <4>1, <4>2
    <3> QED
      BY <2>1, <2>2, <3>5, <3>7
  <2>4. CASE m \notin Handles
    <3>1. q = p
      BY <2>2, <2>4
    <3>2. \A t \in Handles : ~p[t].cc
      BY <2>4
    <3> QED
      BY <2>1, <2>2, <3>1, <3>2
  <2> QED
    BY <2>3, <2>4
<1> QED
  BY <1>1, <1>2

\* setUp, of a handle without settings.
LEMMA SetUp ==
    ASSUME LayersOK, LayersTyped, NEW h \in Handles, NEW f \in {"main", "pip"}, NEW film,
           pgr[h].audioFocus = "unset", userSound \in Sounds,
           \A t \in Handles : pgr[t].audioFocus # f,
           setUp(h, f, film), UNCHANGED out
    PROVE  /\ LayersOK' /\ LayersTyped'
           /\ pgr'[h].audioFocus = f /\ pgr'[h].sound = userSound
           /\ \A t \in Handles : t # h => /\ pgr'[t].audioFocus = pgr[t].audioFocus
                                          /\ pgr'[t].sound = pgr[t].sound
                                          /\ pgr'[t].missed = pgr[t].missed
           /\ \A t \in Handles : pgr'[t].shown = pgr[t].shown
<1>1. /\ pgr \in [Handles -> Settings] /\ isClosedCaptionEnabled \in BOOLEAN
      /\ pgr[h] \in Settings
  BY DEF LayersTyped
<1>2. PICK p : p = [pgr EXCEPT ![h].audioFocus = f]
  OBVIOUS
<1>3. /\ p \in [Handles -> Settings] /\ p[h].audioFocus = f
      /\ \A t \in Handles : t # h => p[t] = pgr[t]
      /\ \A t \in Handles : /\ p[t].shown = pgr[t].shown /\ p[t].cc = pgr[t].cc
                            /\ p[t].sound = pgr[t].sound /\ p[t].missed = pgr[t].missed
  <2>1. PICK c : c = [pgr[h] EXCEPT !.audioFocus = f]
    OBVIOUS
  <2>2. p = [pgr EXCEPT ![h] = c]
    BY <1>2, <2>1
  <2>3. /\ c \in Settings /\ c.audioFocus = f /\ c.shown = pgr[h].shown /\ c.cc = pgr[h].cc
        /\ c.sound = pgr[h].sound /\ c.missed = pgr[h].missed
    BY <1>1, <2>1 DEF Settings
  <2>4. p \in [Handles -> Settings] /\ p[h] = c /\ \A t \in Handles : t # h => p[t] = pgr[t]
    BY <1>1, <2>2, <2>3
  <2> QED
    BY <2>3, <2>4
<1>4. PICK w : w = Windowed(h, f)
  OBVIOUS
<1>5. \A t \in Handles : p[t].cc => mMainScreenPgrHandle = t
  BY <1>3 DEF LayersOK
<1>6. /\ w \in [Handles -> Settings]
      /\ \A t \in Handles : /\ w[t].shown = p[t].shown /\ w[t].audioFocus = p[t].audioFocus
                            /\ w[t].sound = p[t].sound /\ w[t].missed = p[t].missed
      /\ f = "pip" => \A t \in Handles : ~w[t].cc
      /\ f = "main" => w = p
  <2>1. CASE f = "pip"
    <3>1. w = CaptionsOn(p, FALSE)
      BY <1>2, <1>4, <2>1 DEF Windowed, TakesCaptions
    <3> QED
      BY <1>3, <1>5, <2>1, <3>1, CaptionsOff
  <2>2. CASE f = "main"
    <3>1. w = p
      BY <1>2, <1>4, <2>2 DEF Windowed, TakesCaptions
    <3> QED
      BY <1>3, <2>2, <3>1
  <2> QED
    BY <2>1, <2>2
<1>7. PICK q : q = pgr'
  OBVIOUS
<1>8. /\ q \in [Handles -> Settings] /\ q[h].sound = userSound
      /\ \A t \in Handles : t # h => q[t].sound = w[t].sound /\ q[t].missed = w[t].missed
      /\ \A t \in Handles : /\ q[t].shown = w[t].shown /\ q[t].audioFocus = w[t].audioFocus
                            /\ q[t].cc = w[t].cc
  <2>1. PICK c : c = [w[h] EXCEPT !.sound = userSound, !.missed = FALSE]
    OBVIOUS
  <2>2. q = [w EXCEPT ![h] = c]
    BY <1>4, <1>7, <2>1 DEF setUp, setAudioParams
  <2>3. w[h] \in Settings
    BY <1>6
  <2>4. /\ c \in Settings /\ c.sound = userSound /\ c.shown = w[h].shown /\ c.cc = w[h].cc
        /\ c.audioFocus = w[h].audioFocus
    BY <2>1, <2>3 DEF Settings
  <2>5. q \in [Handles -> Settings] /\ q[h] = c /\ \A t \in Handles : t # h => q[t] = w[t]
    BY <1>6, <2>2, <2>4
  <2> QED
    BY <2>4, <2>5
<1>9. /\ UNCHANGED <<mMainScreenPgrHandle, mIsOutputStarted, out>>
      /\ isClosedCaptionEnabled' = (isClosedCaptionEnabled /\ f # "pip")
  BY <1>1 DEF setUp, TakesCaptions
<1>10. /\ q[h].audioFocus = f
       /\ \A t \in Handles : t # h => q[t].audioFocus = pgr[t].audioFocus
       /\ \A t \in Handles : q[t].shown = pgr[t].shown
       /\ \A t \in Handles : q[t].cc => f = "main" /\ pgr[t].cc
       /\ f = "main" => \A t \in Handles : q[t].cc = pgr[t].cc
  BY <1>3, <1>6, <1>8
<1>11. ~pgr[h].shown
  BY DEF LayersOK
<1>12. LayersTyped'
  BY <1>1, <1>7, <1>8, <1>9 DEF LayersTyped
<1>13. LayersOK'
  <2>1. \A s, t \in Handles : s # t /\ q[s].audioFocus # "unset" =>
           q[s].audioFocus # q[t].audioFocus
    BY <1>10 DEF LayersOK
  <2>2. ASSUME NEW g \in {"main", "pip"}
        PROVE  mIsOutputStarted[g] <=> \E s \in Handles : q[s].shown /\ q[s].audioFocus = g
    <3>1. \A s \in Handles : q[s].shown /\ q[s].audioFocus = g <=>
                             pgr[s].shown /\ pgr[s].audioFocus = g
      BY <1>10, <1>11
    <3> QED
      BY <3>1 DEF LayersOK
  <2>3. ASSUME NEW s \in Handles
        PROVE  /\ q[s].shown => q[s].audioFocus # "unset"
               /\ out[s] => q[s].shown
               /\ q[s].cc => /\ q[s].audioFocus = "main" /\ mMainScreenPgrHandle = s
                             /\ isClosedCaptionEnabled'
               /\ q[s].shown /\ q[s].audioFocus = "main" =>
                     /\ mMainScreenPgrHandle = s
                     /\ isClosedCaptionEnabled' => q[s].cc
               /\ mMainScreenPgrHandle = s => q[s].audioFocus = "main"
    <3>1. CASE s = h
      BY <1>9, <1>10, <1>11, <3>1 DEF LayersOK
    <3>2. CASE s # h
      BY <1>9, <1>10, <3>2 DEF LayersOK
    <3> QED
      BY <3>1, <3>2
  <2> QED
    BY <1>7, <1>9, <2>1, <2>2, <2>3 DEF LayersOK
<1> QED
  BY <1>3, <1>6, <1>7, <1>8, <1>10, <1>12, <1>13

\* connectOutput, of a handle that is set up.
LEMMA Connected ==
    ASSUME LayersOK, LayersTyped, NEW h \in Handles, NEW ok \in BOOLEAN,
           pgr[h].audioFocus # "unset", connectOutput(h, ok), out' = [out EXCEPT ![h] = ok]
    PROVE  /\ LayersOK' /\ LayersTyped' /\ FocusSame(pgr, pgr') /\ SoundSame(pgr, pgr')
           /\ \A t \in Handles : t # h => pgr'[t].shown = pgr[t].shown
<1>0. PICK f : f = pgr[h].audioFocus
  OBVIOUS
<1>1. /\ f \in {"main", "pip"} /\ (mIsOutputStarted[f] <=> pgr[h].shown)
      /\ \A t \in Handles : t # h => pgr[t].audioFocus # f
  BY <1>0, LayerOf
<1>2. /\ mMainScreenPgrHandle' = (IF f = "main" THEN h ELSE mMainScreenPgrHandle)
      /\ UNCHANGED isClosedCaptionEnabled
      /\ \/ mIsOutputStarted[f] /\ ok /\ UNCHANGED <<pgr, mIsOutputStarted>>
         \/ /\ ~mIsOutputStarted[f] /\ ok
            /\ pgr' = Showing(h, f)
            /\ mIsOutputStarted' = [mIsOutputStarted EXCEPT ![f] = TRUE]
         \/ ~mIsOutputStarted[f] /\ ~ok /\ UNCHANGED <<pgr, mIsOutputStarted>>
  BY <1>0 DEF connectOutput
<1>3. /\ pgr \in [Handles -> Settings] /\ mIsOutputStarted \in Flags
      /\ isClosedCaptionEnabled \in BOOLEAN /\ pgr[h] \in Settings
      /\ out' \in [Handles -> BOOLEAN] /\ out'[h] = ok
      /\ \A t \in Handles : t # h => out'[t] = out[t]
  BY DEF LayersTyped
\* Whoever was main shares the focus with h, and so is h.
<1>4. \A t \in Handles : mMainScreenPgrHandle = t => (f = "main" => t = h)
  BY <1>1 DEF LayersOK
<1>5. CASE UNCHANGED <<pgr, mIsOutputStarted>> /\ (ok <=> pgr[h].shown)
  <2>1. LayersTyped'
    BY <1>2, <1>3, <1>5 DEF LayersTyped
  <2>2. ASSUME NEW s \in Handles
        PROVE  /\ pgr[s].shown => pgr[s].audioFocus # "unset"
               /\ out'[s] => pgr[s].shown
               /\ pgr[s].cc => /\ pgr[s].audioFocus = "main" /\ mMainScreenPgrHandle' = s
                               /\ isClosedCaptionEnabled
               /\ pgr[s].shown /\ pgr[s].audioFocus = "main" =>
                     /\ mMainScreenPgrHandle' = s
                     /\ isClosedCaptionEnabled => pgr[s].cc
               /\ mMainScreenPgrHandle' = s => pgr[s].audioFocus = "main"
    <3>1. CASE s = h
      BY <1>0, <1>2, <1>3, <1>4, <1>5, <3>1 DEF LayersOK
    <3>2. CASE s # h
      BY <1>0, <1>1, <1>2, <1>3, <1>4, <3>2 DEF LayersOK
    <3> QED
      BY <3>1, <3>2
  <2>3. LayersOK'
    BY <1>2, <1>5, <2>2 DEF LayersOK
  <2> QED
    BY <1>5, <2>1, <2>3 DEF FocusSame, SoundSame
<1>6. CASE /\ ~pgr[h].shown /\ ok /\ pgr' = Showing(h, f)
           /\ mIsOutputStarted' = [mIsOutputStarted EXCEPT ![f] = TRUE]
  <2>1. PICK q : q = pgr'
    OBVIOUS
  <2>2. /\ q \in [Handles -> Settings] /\ q[h].shown
        /\ q[h].cc <=> (f = "main" /\ isClosedCaptionEnabled)
        /\ q[h].audioFocus = f /\ q[h].sound = pgr[h].sound /\ q[h].missed = pgr[h].missed
        /\ \A t \in Handles : t # h => q[t] = pgr[t]
    <3>1. CASE f = "main"
      <4>1. q = [pgr EXCEPT ![h].shown = TRUE, ![h].cc = (pgr[h].cc \/ isClosedCaptionEnabled)]
        BY <1>3, <1>6, <2>1, <3>1 DEF Showing, playToVideoLayer
      <4>2. PICK c : c = [pgr[h] EXCEPT !.shown = TRUE, !.cc = (pgr[h].cc \/ isClosedCaptionEnabled)]
        OBVIOUS
      <4>3. q = [pgr EXCEPT ![h] = c]
        BY <4>1, <4>2
      <4>4. /\ c \in Settings /\ c.shown = TRUE /\ c.cc = (pgr[h].cc \/ isClosedCaptionEnabled)
            /\ c.audioFocus = pgr[h].audioFocus /\ c.sound = pgr[h].sound
            /\ c.missed = pgr[h].missed
        BY <1>3, <4>2 DEF Settings
      <4>5. q \in [Handles -> Settings] /\ q[h] = c /\ \A t \in Handles : t # h => q[t] = pgr[t]
        BY <1>3, <4>3, <4>4
      <4>6. pgr[h].cc => isClosedCaptionEnabled
        BY DEF LayersOK
      <4> QED
        BY <1>0, <3>1, <4>4, <4>5, <4>6
    <3>2. CASE f = "pip"
      <4>1. q = [pgr EXCEPT ![h].shown = TRUE]
        BY <1>6, <2>1, <3>2 DEF Showing, playPIPVideo
      <4>2. PICK c : c = [pgr[h] EXCEPT !.shown = TRUE]
        OBVIOUS
      <4>3. q = [pgr EXCEPT ![h] = c]
        BY <4>1, <4>2
      <4>4. /\ c \in Settings /\ c.shown = TRUE /\ c.cc = pgr[h].cc
            /\ c.audioFocus = pgr[h].audioFocus /\ c.sound = pgr[h].sound
            /\ c.missed = pgr[h].missed
        BY <1>3, <4>2 DEF Settings
      <4>5. q \in [Handles -> Settings] /\ q[h] = c /\ \A t \in Handles : t # h => q[t] = pgr[t]
        BY <1>3, <4>3, <4>4
      <4>6. ~pgr[h].cc
        BY <1>0, <3>2 DEF LayersOK
      <4> QED
        BY <1>0, <3>2, <4>4, <4>5, <4>6
    <3> QED
      BY <1>1, <3>1, <3>2
  <2>3. /\ mIsOutputStarted' \in Flags /\ mIsOutputStarted'[f]
        /\ \A g \in {"main", "pip"} : g # f => mIsOutputStarted'[g] = mIsOutputStarted[g]
    <3>1. PICK n : n = [mIsOutputStarted EXCEPT ![f] = TRUE]
      OBVIOUS
    <3>2. f \in {"main", "pip"} /\ mIsOutputStarted \in Flags
      BY <1>1, <1>3
    <3>3. n \in Flags /\ n[f] = TRUE /\ \A g \in {"main", "pip"} : g # f => n[g] = mIsOutputStarted[g]
      BY ONLY <3>1, <3>2 DEF Flags
    <3> QED
      BY <1>6, <3>1, <3>3
  <2>4. LayersTyped'
    BY <1>2, <1>3, <2>1, <2>2, <2>3 DEF LayersTyped
  <2>5. FocusSame(pgr, q) /\ SoundSame(pgr, q)
    BY <1>0, <2>2 DEF FocusSame, SoundSame
  <2>6. LayersOK'
    <3>1. \A s, t \in Handles : s # t /\ q[s].audioFocus # "unset" =>
             q[s].audioFocus # q[t].audioFocus
      BY <2>5 DEF LayersOK, FocusSame
    <3>2. ASSUME NEW g \in {"main", "pip"}
          PROVE  mIsOutputStarted'[g] <=> \E s \in Handles : q[s].shown /\ q[s].audioFocus = g
      <4>1. CASE g = f
        BY <2>2, <2>3, <4>1
      <4>2. CASE g # f
        <5>1. \A s \in Handles : q[s].shown /\ q[s].audioFocus = g <=>
                                 pgr[s].shown /\ pgr[s].audioFocus = g
          BY <1>0, <2>2, <4>2
        <5>2. mIsOutputStarted[g] <=> \E s \in Handles : pgr[s].shown /\ pgr[s].audioFocus = g
          BY DEF LayersOK
        <5> QED
          BY <2>3, <4>2, <5>1, <5>2
      <4> QED
        BY <4>1, <4>2
    <3>3. ASSUME NEW s \in Handles
          PROVE  /\ q[s].shown => q[s].audioFocus # "unset"
                 /\ out'[s] => q[s].shown
                 /\ q[s].cc => /\ q[s].audioFocus = "main" /\ mMainScreenPgrHandle' = s
                               /\ isClosedCaptionEnabled
                 /\ q[s].shown /\ q[s].audioFocus = "main" =>
                       /\ mMainScreenPgrHandle' = s
                       /\ isClosedCaptionEnabled => q[s].cc
                 /\ mMainScreenPgrHandle' = s => q[s].audioFocus = "main"
      <4>1. CASE s = h
        BY <1>0, <1>1, <1>2, <1>4, <2>2, <4>1 DEF LayersOK
      <4>2. CASE s # h
        BY <1>0, <1>1, <1>2, <1>3, <1>4, <2>2, <4>2 DEF LayersOK
      <4> QED
        BY <4>1, <4>2
    <3> QED
      BY <1>2, <2>1, <3>1, <3>2, <3>3 DEF LayersOK
  <2> QED
    BY <2>1, <2>2, <2>4, <2>5, <2>6
<1> QED
  BY <1>1, <1>2, <1>5, <1>6

\* setCc, by the user.
LEMMA CaptionsSet ==
    ASSUME LayersOK, LayersTyped, NEW on \in BOOLEAN, setCc(on),
           UNCHANGED <<mMainScreenPgrHandle, mIsOutputStarted, out>>
    PROVE  /\ LayersOK' /\ LayersTyped' /\ FocusSame(pgr, pgr') /\ SoundSame(pgr, pgr')
           /\ \A t \in Handles : pgr'[t].shown = pgr[t].shown
<1> DEFINE m == mMainScreenPgrHandle
<1>1. PICK q : q = pgr'
  OBVIOUS
<1>2. /\ pgr \in [Handles -> Settings] /\ m \in Handles \cup {NoHandle}
      /\ isClosedCaptionEnabled' = on
  BY DEF LayersTyped, setCc
<1>3. /\ q \in [Handles -> Settings]
      /\ \A t \in Handles : /\ q[t].shown = pgr[t].shown /\ q[t].audioFocus = pgr[t].audioFocus
                            /\ q[t].sound = pgr[t].sound /\ q[t].missed = pgr[t].missed
                            /\ q[t].cc <=> (m = t /\ on)
  <2>1. CASE m = NoHandle
    <3>1. q = pgr
      BY <1>1, <2>1 DEF setCc, CaptionsOn
    <3>2. \A t \in Handles : m # t /\ ~pgr[t].cc
      BY <2>1, AvpmAssumption DEF LayersOK
    <3> QED
      BY <1>2, <3>1, <3>2
  <2>2. CASE m # NoHandle
    <3>1. m \in Handles /\ q = [pgr EXCEPT ![m].cc = on]
      BY <1>1, <1>2, <2>2 DEF setCc, CaptionsOn
    <3>2. PICK c : c = [pgr[m] EXCEPT !.cc = on]
      OBVIOUS
    <3>3. q = [pgr EXCEPT ![m] = c]
      BY <3>1, <3>2
    <3>4. \A t \in Handles : t # m => ~pgr[t].cc
      BY DEF LayersOK
    <3> HIDE DEF m
    <3>5. pgr[m] \in Settings
      BY <1>2, <3>1
    <3>6. /\ c \in Settings /\ c.cc = on /\ c.shown = pgr[m].shown
          /\ c.audioFocus = pgr[m].audioFocus /\ c.sound = pgr[m].sound
          /\ c.missed = pgr[m].missed
      BY <3>2, <3>5 DEF Settings
    <3>7. q \in [Handles -> Settings] /\ q[m] = c /\ \A t \in Handles : t # m => q[t] = pgr[t]
      BY <1>2, <3>1, <3>3, <3>6
    <3>8. ASSUME NEW t \in Handles
          PROVE  /\ q[t].shown = pgr[t].shown /\ q[t].audioFocus = pgr[t].audioFocus
                 /\ q[t].sound = pgr[t].sound /\ q[t].missed = pgr[t].missed
                 /\ q[t].cc <=> (m = t /\ on)
      <4>1. CASE t = m
        BY <3>6, <3>7, <4>1
      <4>2. CASE t # m
        BY <3>4, <3>7, <4>2
      <4> QED
        BY <4>1, <4>2
    <3> QED
      BY <3>7, <3>8
  <2> QED
    BY <2>1, <2>2
<1>4. LayersTyped'
  BY <1>1, <1>2, <1>3 DEF LayersTyped
<1>5. LayersOK'
  <2>1. \A f \in {"main", "pip"} : \A s \in Handles :
           q[s].shown /\ q[s].audioFocus = f <=> pgr[s].shown /\ pgr[s].audioFocus = f
    BY <1>3
  <2>2. \A f \in {"main", "pip"} :
           mIsOutputStarted[f] <=> \E s \in Handles : q[s].shown /\ q[s].audioFocus = f
    BY <2>1 DEF LayersOK
  <2>3. ASSUME NEW s \in Handles
        PROVE  /\ q[s].shown => q[s].audioFocus # "unset"
               /\ out[s] => q[s].shown
               /\ q[s].cc => q[s].audioFocus = "main" /\ m = s /\ on
               /\ q[s].shown /\ q[s].audioFocus = "main" => m = s /\ (on => q[s].cc)
               /\ m = s => q[s].audioFocus = "main"
    BY <1>3 DEF LayersOK
  <2>4. \A s, t \in Handles : s # t /\ q[s].audioFocus # "unset" =>
           q[s].audioFocus # q[t].audioFocus
    BY <1>3 DEF LayersOK
  <2> QED
    BY <1>1, <1>2, <2>2, <2>3, <2>4 DEF LayersOK
<1> QED
  BY <1>1, <1>3, <1>4, <1>5 DEF FocusSame, SoundSame

\* MasterMute and setMasterVolume, for the main handle.
LEMMA Muted ==
    ASSUME LayersOK, LayersTyped, NEW sound \in Sounds,
           pgr' = MasterMute(mMainScreenPgrHandle, sound),
           UNCHANGED <<mMainScreenPgrHandle, mIsOutputStarted, isClosedCaptionEnabled, out>>
    PROVE  /\ LayersOK' /\ LayersTyped' /\ FocusSame(pgr, pgr')
           /\ \A t \in Handles :
                 /\ pgr'[t].shown = pgr[t].shown
                 /\ \/ pgr'[t].sound = sound
                    \/ /\ pgr'[t].sound = pgr[t].sound
                       /\ pgr[t].sound # "unset" => pgr'[t].missed
<1>1. PICK q : q = pgr'
  OBVIOUS
<1>2. ASSUME NEW t \in Handles
      PROVE  /\ q[t] \in Settings
             /\ q[t].shown = pgr[t].shown /\ q[t].cc = pgr[t].cc
             /\ q[t].audioFocus = pgr[t].audioFocus
             /\ \/ q[t].sound = sound
                \/ /\ q[t].sound = pgr[t].sound
                   /\ pgr[t].sound # "unset" => q[t].missed
  <2>1. pgr[t] \in Settings
    BY DEF LayersTyped
  <2>2. CASE t = mMainScreenPgrHandle
    <3>1. PICK c : c = [pgr[t] EXCEPT !.sound = sound]
      OBVIOUS
    <3>2. q[t] = c
      BY <1>1, <2>2, <3>1 DEF MasterMute
    <3> QED
      BY <2>1, <3>1, <3>2 DEF Settings
  <2>3. CASE t # mMainScreenPgrHandle
    <3>1. PICK missed : missed = (pgr[t].missed \/ pgr[t].sound \notin {"unset", sound})
      OBVIOUS
    <3>2. PICK c : c = [pgr[t] EXCEPT !.missed = missed]
      OBVIOUS
    <3>3. q[t] = c
      BY <1>1, <2>3, <3>1, <3>2 DEF MasterMute
    <3>4. missed \in BOOLEAN
      BY <3>1
    <3>5. /\ c \in Settings /\ c.missed = missed /\ c.shown = pgr[t].shown /\ c.cc = pgr[t].cc
          /\ c.audioFocus = pgr[t].audioFocus /\ c.sound = pgr[t].sound
      BY <2>1, <3>2, <3>4 DEF Settings
    <3> QED
      BY <3>1, <3>3, <3>5
  <2> QED
    BY <2>2, <2>3
<1>3. q \in [Handles -> Settings]
  <2>1. q = [t \in Handles |-> q[t]]
    BY <1>1 DEF MasterMute
  <2> QED
    BY <1>2, <2>1
<1>4. LayersTyped'
  BY <1>1, <1>3 DEF LayersTyped
<1>5. LayersOK'
  <2>1. \A f \in {"main", "pip"} : \A s \in Handles :
           q[s].shown /\ q[s].audioFocus = f <=> pgr[s].shown /\ pgr[s].audioFocus = f
    BY <1>2
  <2>2. \A f \in {"main", "pip"} :
           mIsOutputStarted[f] <=> \E s \in Handles : q[s].shown /\ q[s].audioFocus = f
    BY <2>1 DEF LayersOK
  <2>3. ASSUME NEW s \in Handles
        PROVE  /\ q[s].shown => q[s].audioFocus # "unset"
               /\ out[s] => q[s].shown
               /\ q[s].cc => /\ q[s].audioFocus = "main" /\ mMainScreenPgrHandle = s
                             /\ isClosedCaptionEnabled
               /\ q[s].shown /\ q[s].audioFocus = "main" =>
                     /\ mMainScreenPgrHandle = s
                     /\ isClosedCaptionEnabled => q[s].cc
               /\ mMainScreenPgrHandle = s => q[s].audioFocus = "main"
    BY <1>2 DEF LayersOK
  <2>4. \A s, t \in Handles : s # t /\ q[s].audioFocus # "unset" =>
           q[s].audioFocus # q[t].audioFocus
    BY <1>2 DEF LayersOK
  <2> QED
    BY <1>1, <2>2, <2>3, <2>4 DEF LayersOK
<1> QED
  BY <1>1, <1>2, <1>4, <1>5 DEF FocusSame

------------------------------------------------------------------------------
(* The screens: sessions, displays and handles *)

\* Its handle has no settings yet.
Fresh(s) == disp[s] = "none" \/ (s \in Films /\ disp[s] = "starting")

\* What is left to do for a session fits its display, and there is something to
\* do it with.
DispOK(s) ==
    /\ Phase(Left[s], disp[s], s)
    /\ pgr[s].audioFocus = "unset" <=> Fresh(s)
    /\ disp[s] = "stopped" => ~pgr[s].shown
    /\ frame[s] \/ s \in AtWork => s \in Films /\ disp[s] # "none"
    /\ "setUp" \in Left[s] => mAudioFocus[s] # "none"
    /\ "commit" \in Left[s] => pending[s] # "none"

\* The focus a session has when the commit that is under way is over.
Final(s) == IF "commit" \in Left[s] THEN pending[s] ELSE mAudioFocus[s]

\* No two sessions have one focus then.  Meanwhile those that change places may,
\* but their displays are closed.  A display has the focus of its session, or
\* that which the session had when it was ejected.
FocusOK ==
    /\ \A s, t \in Handles : s # t /\ Final(s) # "none" => Final(s) # Final(t)
    /\ \A s, t \in Handles :
          s # t /\ mAudioFocus[s] # "none" /\ mAudioFocus[s] = mAudioFocus[t] =>
             /\ "setUp" \in Mine[s] /\ "setUp" \in Mine[t]
             /\ "commit" \in Left[s] \/ "commit" \in Left[t]
    /\ \A s, t \in Handles :
          s # t /\ pgr[s].audioFocus # "unset" => pgr[s].audioFocus # mAudioFocus[t]
    /\ \A s \in Handles :
          \/ pgr[s].audioFocus \in {"unset", mAudioFocus[s]}
          \/ mAudioFocus[s] = "none" /\ "close" \in Mine[s]

\* What a handle sounds like is what the user wants, unless a change is on the
\* queue or went past it.
SoundsOK ==
    /\ avQueue # <<>> => avQueue[Len(avQueue)] = userSound
    /\ \A s \in Handles :
          pgr[s].audioFocus # "unset" =>
             /\ pgr[s].sound # "unset"
             /\ pgr[s].sound = userSound \/ pgr[s].missed \/ avQueue # <<>>

ScreensOK == (\A s \in Handles : DispOK(s)) /\ FocusOK /\ LayersOK /\ SoundsOK

\* The resolution is a film's as long as one is about, or its first frame.
About(s) ==
    \/ disp[s] \in {"starting", "started", "incomplete"}
    \/ disp[s] = "stopped" /\ s \in AtWork

ResolutionOK ==
    /\ resolution.output = "1080p" => resolution.active
    /\ resolution.active => \E s \in Handles : s \in Films /\ About(s)

RestTyped ==
    /\ mIsVod \in BOOLEAN
    /\ resolution \in [output : {"user", "1080p"}, active : BOOLEAN]
    /\ userSound \in Sounds /\ avQueue \in Seq(Sounds)
    /\ changes \in 0..MaxChanges
    /\ slips \subseteq {"resolution"}
    /\ mAudioFocus \in [Handles -> {"none", "main", "pip"}]
    /\ pending \in [Handles -> {"none", "main", "pip"}]
    /\ disp \in [Handles -> Displays]
    /\ frame \in [Handles -> BOOLEAN]
    /\ strays \subseteq {"frame", "focus"}

ScreensInv ==
    /\ LayersTyped /\ RestTyped /\ WorkOK
    /\ strays = {} => ScreensOK
    /\ strays = {} /\ slips = {} => ResolutionOK

\* Nothing was lost track of so far.
Tracked == ScreensInv /\ strays = {} /\ slips = {}

------------------------------------------------------------------------------
(* What an action leaves alone *)

LEMMA DispKept ==
    ASSUME NEW s \in Handles, DispOK(s), Left'[s] = Left[s], disp'[s] = disp[s],
           pgr'[s].audioFocus = "unset" <=> pgr[s].audioFocus = "unset",
           disp[s] = "stopped" => (pgr'[s].shown => pgr[s].shown),
           frame'[s] \/ s \in AtWork' => frame[s] \/ s \in AtWork,
           "setUp" \in Left[s] /\ mAudioFocus[s] # "none" => mAudioFocus'[s] # "none",
           "commit" \in Left[s] /\ pending[s] # "none" => pending'[s] # "none"
    PROVE  DispOK(s)'
BY DEF DispOK, Fresh

LEMMA FocusKept ==
    ASSUME FocusOK, UNCHANGED <<mAudioFocus, pending>>,
           \A s \in Handles :
              /\ "commit" \in Left'[s] <=> "commit" \in Left[s]
              /\ "setUp" \in Mine[s] => "setUp" \in Mine'[s]
              /\ \/ pgr'[s].audioFocus = "unset"
                 \/ /\ pgr'[s].audioFocus = pgr[s].audioFocus
                    /\ "close" \in Mine[s] => "close" \in Mine'[s]
    PROVE  FocusOK'
<1>1. \A s \in Handles : Final(s)' = Final(s)
  BY DEF Final
<1>2. \A s, t \in Handles : s # t /\ Final(s)' # "none" => Final(s)' # Final(t)'
  BY <1>1 DEF FocusOK
<1>3. \A s, t \in Handles :
         s # t /\ mAudioFocus[s] # "none" /\ mAudioFocus[s] = mAudioFocus[t] =>
            /\ "setUp" \in Mine'[s] /\ "setUp" \in Mine'[t]
            /\ "commit" \in Left'[s] \/ "commit" \in Left'[t]
  BY DEF FocusOK
<1>4. \A s, t \in Handles :
         s # t /\ pgr'[s].audioFocus # "unset" => pgr'[s].audioFocus # mAudioFocus[t]
  BY DEF FocusOK
<1>5. \A s \in Handles :
         \/ pgr'[s].audioFocus \in {"unset", mAudioFocus[s]}
         \/ mAudioFocus[s] = "none" /\ "close" \in Mine'[s]
  BY DEF FocusOK
<1> QED
  BY <1>2, <1>3, <1>4, <1>5 DEF FocusOK

LEMMA SoundsKept ==
    ASSUME SoundsOK, UNCHANGED <<avQueue, userSound>>,
           \A s \in Handles : pgr'[s].audioFocus # "unset" =>
              /\ pgr[s].audioFocus # "unset"
              /\ pgr'[s].sound = pgr[s].sound /\ pgr'[s].missed = pgr[s].missed
    PROVE  SoundsOK'
BY DEF SoundsOK

LEMMA LayersKept ==
    ASSUME LayersOK, LayersTyped, UNCHANGED avpmVars, UNCHANGED out
    PROVE  LayersOK' /\ LayersTyped'
BY DEF LayersOK, LayersTyped, avpmVars, avpm

LEMMA ResolutionKept ==
    ASSUME ResolutionOK,
           \/ UNCHANGED resolution
           \/ ~resolution'.active /\ resolution'.output = "user",
           \A s \in Handles : s \in Films /\ About(s) => About(s)'
    PROVE  ResolutionOK'
BY DEF ResolutionOK

LEMMA TrackedFacts ==
    ASSUME Tracked
    PROVE  /\ LayersTyped /\ RestTyped /\ WorkOK /\ ResolutionOK
           /\ FocusOK /\ LayersOK /\ SoundsOK
           /\ \A s \in Handles : DispOK(s)
BY DEF Tracked, ScreensInv, ScreensOK

LEMMA StillTracked ==
    ASSUME LayersTyped', RestTyped', WorkOK', ResolutionOK', FocusOK', LayersOK', SoundsOK',
           \A s \in Handles : DispOK(s)'
    PROVE  ScreensInv'
BY DEF ScreensInv, ScreensOK

\* The player's thread has nothing to do, and commits nothing.
LEMMA PlayerFree ==
    ASSUME WorkOK, PlayerIsFree
    PROVE  \A s \in Handles : Mine[s] = {} /\ "commit" \notin Left[s]
<1>1. ASSUME NEW s \in Handles PROVE Mine[s] = {}
  BY LeftIs, InNone DEF PlayerIsFree
<1> QED
  BY <1>1, LeftFacts

\* Nobody has anything to do for the session.
LEMMA NotLocked ==
    ASSUME WorkOK, NEW s \in Handles, ~Locked(s)
    PROVE  Left[s] = {}
<1>1. SUFFICES ASSUME NEW o \in Left[s] PROVE FALSE
  OBVIOUS
<1>2. IsIn(<<o, s>>, work[s]) \/ IsIn(<<o, s>>, work["player"])
  BY <1>1, LeftIs
<1>3. PICK t \in {s, "player"} : IsIn(<<o, s>>, work[t])
  BY <1>2
<1>4. t \in Threads \ {"media"} /\ work[t] \in Seq(Items)
  BY Names DEF WorkOK, Threads
<1>5. PICK i \in 1..Len(work[t]) : work[t][i] = <<o, s>>
  BY <1>3 DEF IsIn
<1>6. i \in DOMAIN work[t] /\ work[t][i][2] = s
  BY <1>4, <1>5
<1> QED
  BY <1>4, <1>6 DEF Locked

LEMMA IdleDisplay ==
    ASSUME NEW s \in Handles, DispOK(s), Left[s] = {}, disp \in [Handles -> Displays]
    PROVE  disp[s] \in {"none", "started", "incomplete"}
BY PhaseIdle DEF DispOK

------------------------------------------------------------------------------
(* The client, while the player's thread is free *)

\* A session that has no display, for all Avpm knows, is moved to a screen.
LEMMA Refocused ==
    ASSUME Tracked, NEW s \in Handles, NEW f \in {"main", "pip"}, PlayerIsFree,
           pgr[s].audioFocus = "unset", \A t \in Handles \ {s} : mAudioFocus[t] # f,
           mAudioFocus' = [mAudioFocus EXCEPT ![s] = f],
           UNCHANGED <<pending, disp, out, frame, work, strays, avpmVars>>
    PROVE  ScreensInv'
<1>1. /\ LayersTyped /\ RestTyped /\ WorkOK /\ ResolutionOK
      /\ FocusOK /\ LayersOK /\ SoundsOK /\ \A t \in Handles : DispOK(t)
  BY TrackedFacts
<1>2. WorkOK' /\ Left' = Left /\ Mine' = Mine /\ AtWork' = AtWork
  BY <1>1, WorkUnchanged
<1>3. UNCHANGED <<pgr, mMainScreenPgrHandle, mIsOutputStarted, isClosedCaptionEnabled, mIsVod,
                  resolution, slips, userSound, avQueue, changes>>
  BY DEF avpmVars, avpm, user
<1>4. LayersTyped' /\ LayersOK' /\ SoundsOK'
  BY <1>1, <1>3, LayersKept, SoundsKept DEF avpmVars
<1>5. /\ mAudioFocus' \in [Handles -> {"none", "main", "pip"}] /\ mAudioFocus'[s] = f
      /\ \A t \in Handles : t # s => mAudioFocus'[t] = mAudioFocus[t]
  BY <1>1 DEF RestTyped
<1>6. RestTyped'
  BY <1>1, <1>3, <1>5 DEF RestTyped
<1>7. ResolutionOK'
  BY <1>1, <1>2, <1>3, ResolutionKept DEF About
<1>8. ASSUME NEW t \in Handles PROVE DispOK(t)'
  BY <1>1, <1>2, <1>3, <1>5, DispKept
<1>9. \A t \in Handles : Mine[t] = {} /\ "commit" \notin Left[t]
  BY <1>1, PlayerFree
<1>10. FocusOK'
  <2>1. \A t \in Handles : Final(t) = mAudioFocus[t] /\ Final(t)' = mAudioFocus'[t]
    BY <1>2, <1>9 DEF Final
  <2>2. \A t, r \in Handles : t # r /\ mAudioFocus'[t] # "none" => mAudioFocus'[t] # mAudioFocus'[r]
    BY <1>1, <1>5, <2>1 DEF FocusOK
  <2>3. \A t \in Handles : pgr[t].audioFocus \in {"unset", mAudioFocus'[t]}
    BY <1>1, <1>5, <1>9 DEF FocusOK
  <2>4. \A t \in Handles : pgr[t].audioFocus # "none"
    BY <1>1, SettingsOf DEF LayersTyped
  <2>5. \A t, r \in Handles : t # r /\ pgr[t].audioFocus # "unset" =>
           pgr[t].audioFocus # mAudioFocus'[r]
    BY <2>2, <2>3, <2>4
  <2> QED
    BY <1>3, <2>1, <2>2, <2>3, <2>5 DEF FocusOK
<1> QED
  BY <1>2, <1>4, <1>6, <1>7, <1>8, <1>10, StillTracked

LEMMA LoadKeeps ==
    ASSUME Tracked, NEW s \in Handles, NEW f \in {"main", "pip"}, Load(s, f)
    PROVE  ScreensInv'
<1>1. FocusOK /\ LayersTyped /\ WorkOK
  BY TrackedFacts
<1>2. pgr[s].audioFocus # "none"
  BY <1>1, SettingsOf DEF LayersTyped
<1>3. Mine[s] = {}
  BY <1>1, PlayerFree DEF Load
<1>4. pgr[s].audioFocus = "unset"
  BY <1>1, <1>2, <1>3 DEF FocusOK, Load
<1> QED
  BY <1>4, Refocused DEF Load

LEMMA ConfigureKeeps ==
    ASSUME Tracked, NEW s \in Handles, NEW f \in {"main", "pip"},
           ConfigurePresentationParams(s, f)
    PROVE  ScreensInv'
<1>1. /\ LayersTyped /\ RestTyped /\ WorkOK /\ ResolutionOK
      /\ FocusOK /\ LayersOK /\ SoundsOK /\ \A t \in Handles : DispOK(t)
  BY TrackedFacts
<1>2. WorkOK' /\ Left' = Left /\ Mine' = Mine /\ AtWork' = AtWork
  BY <1>1, WorkUnchanged DEF ConfigurePresentationParams
<1>3. UNCHANGED <<pgr, mMainScreenPgrHandle, mIsOutputStarted, isClosedCaptionEnabled, mIsVod,
                  resolution, slips, userSound, avQueue, changes,
                  mAudioFocus, disp, out, frame, strays>>
  BY DEF ConfigurePresentationParams, avpmVars, avpm, user
<1>4. LayersTyped' /\ LayersOK' /\ SoundsOK'
  BY <1>1, <1>3, LayersKept, SoundsKept DEF ConfigurePresentationParams
<1>5. /\ pending' \in [Handles -> {"none", "main", "pip"}]
      /\ \A t \in Handles : pending[t] # "none" => pending'[t] # "none"
  BY <1>1 DEF RestTyped, ConfigurePresentationParams
<1>6. RestTyped'
  BY <1>1, <1>3, <1>5 DEF RestTyped
<1>7. ResolutionOK'
  BY <1>1, <1>2, <1>3, ResolutionKept DEF About
<1>8. ASSUME NEW t \in Handles PROVE DispOK(t)'
  BY <1>1, <1>2, <1>3, <1>5, DispKept
<1>9. \A t \in Handles : Mine[t] = {} /\ "commit" \notin Left[t]
  BY <1>1, PlayerFree DEF ConfigurePresentationParams
<1>10. FocusOK'
  <2>1. \A t \in Handles : Final(t) = mAudioFocus[t] /\ Final(t)' = mAudioFocus[t]
    BY <1>2, <1>3, <1>9 DEF Final
  <2> QED
    BY <1>1, <1>2, <1>3, <2>1 DEF FocusOK
<1> QED
  BY <1>2, <1>4, <1>6, <1>7, <1>8, <1>10, StillTracked

\* setPresentationParams moves a display that is at work.
LEMMA WindowTyped ==
    ASSUME LayersOK, LayersTyped, NEW h \in Handles, NEW f \in {"main", "pip"},
           setPresentationParams(h, f), UNCHANGED out
    PROVE  LayersTyped'
<1>1. pgr \in [Handles -> Settings] /\ pgr[h] \in Settings /\ isClosedCaptionEnabled \in BOOLEAN
  BY DEF LayersTyped
<1>2. PICK p : p = [pgr EXCEPT ![h].audioFocus = f]
  OBVIOUS
<1>3. p \in [Handles -> Settings] /\ \A t \in Handles : p[t].cc = pgr[t].cc
  <2>1. PICK c : c = [pgr[h] EXCEPT !.audioFocus = f]
    OBVIOUS
  <2>2. p = [pgr EXCEPT ![h] = c]
    BY <1>2, <2>1
  <2>3. c \in Settings /\ c.cc = pgr[h].cc
    BY <1>1, <2>1 DEF Settings
  <2>4. p \in [Handles -> Settings] /\ p[h] = c /\ \A t \in Handles : t # h => p[t] = pgr[t]
    BY <1>1, <2>2, <2>3
  <2> QED
    BY <2>3, <2>4
<1>4. \A t \in Handles : p[t].cc => mMainScreenPgrHandle = t
  BY <1>3 DEF LayersOK
<1>5. pgr' \in [Handles -> Settings]
  <2>1. pgr' = IF TakesCaptions(h, f) THEN CaptionsOn(p, FALSE) ELSE p
    BY <1>2 DEF setPresentationParams, Windowed
  <2> QED
    BY <1>3, <1>4, <2>1, CaptionsOff
<1>6. /\ UNCHANGED <<mMainScreenPgrHandle, mIsOutputStarted, out>>
      /\ isClosedCaptionEnabled' \in BOOLEAN
  BY <1>1 DEF setPresentationParams
<1> QED
  BY <1>5, <1>6 DEF LayersTyped

LEMMA MoveFocusKeeps ==
    ASSUME Tracked, NEW s \in Handles, NEW f \in {"main", "pip"}, MoveFocus(s, f)
    PROVE  ScreensInv'
<1>1. /\ LayersTyped /\ RestTyped /\ WorkOK /\ LayersOK /\ DispOK(s) /\ strays = {}
  BY TrackedFacts DEF Tracked
<1>2. CASE disp[s] = "none"
  <2>1. pgr[s].audioFocus = "unset"
    BY <1>1, <1>2 DEF DispOK, Fresh
  <2>2. UNCHANGED <<pending, disp, out, frame, work, strays, avpmVars>>
    BY <1>1, <1>2 DEF MoveFocus, Stray, avpmVars
  <2> QED
    BY <2>1, <2>2, Refocused DEF MoveFocus
<1>3. CASE disp[s] # "none"
  <2>1. strays' = {"frame"} \/ strays' = {"focus"}
    BY <1>1, <1>3 DEF MoveFocus, Stray
  <2>2. WorkOK'
    BY <1>1, WorkUnchanged DEF MoveFocus
  <2>3. UNCHANGED <<mIsVod, resolution, slips, userSound, avQueue, changes,
                    pending, disp, out, frame>>
    BY DEF MoveFocus, setPresentationParams, avpm, user
  <2>4. mAudioFocus' \in [Handles -> {"none", "main", "pip"}]
    BY <1>1 DEF RestTyped, MoveFocus
  <2>5. RestTyped'
    BY <1>1, <2>1, <2>3, <2>4 DEF RestTyped
  <2>6. LayersTyped'
    <3>1. CASE disp[s] = "started"
      BY <1>1, <2>3, <3>1, WindowTyped DEF MoveFocus
    <3>2. CASE disp[s] # "started"
      BY <1>1, <2>3, <3>2 DEF MoveFocus, avpm, LayersTyped
    <3> QED
      BY <3>1, <3>2
  <2> QED
    BY <2>1, <2>2, <2>5, <2>6 DEF ScreensInv
<1> QED
  BY <1>2, <1>3

\* What is left to do for a session that gets more to do, and for the others.
LEMMA WorkAssigned ==
    ASSUME WorkOK, NEW s \in Handles, ~Locked(s), NEW w \in Seq(Items), InOrder(w),
           \A x : IsIn(x, w) => x[2] = s /\ x[1] # "commit",
           NEW t \in {s, "player"}, t = "player" => PlayerIsFree,
           work' = [work EXCEPT ![t] = w]
    PROVE  /\ WorkOK' /\ AtWork' = AtWork
           /\ Left[s] = {} /\ Left'[s] = {o \in Ops : IsIn(<<o, s>>, w)}
           /\ t = "player" => Mine'[s] = Left'[s]
           /\ t = s => Mine'[s] = Mine[s]
           /\ \A r \in Handles : r # s => Left'[r] = Left[r] /\ Mine'[r] = Mine[r]
<1>1. Left[s] = {}
  BY NotLocked
<1>2. t \in Owners /\ s # "player" /\ (t \in Handles => t = s)
  BY Names DEF Owners
<1>3. t = "player" => work["player"] = <<>>
  BY DEF PlayerIsFree
<1>4. /\ WorkOK' /\ AtWork' = AtWork
      /\ \A r \in Handles :
            /\ Left'[r] = Left[r] \cup {o \in Ops : IsIn(<<o, r>>, w)}
            /\ t = "player" => Mine[r] = {} /\ Mine'[r] = {o \in Ops : IsIn(<<o, r>>, w)}
            /\ t # "player" => Mine'[r] = Mine[r]
  <2>1. \A x \in Items : IsIn(x, w) => Left[x[2]] = {}
    BY <1>1
  <2>2. t \in Handles =>
           Left[t] = {} /\ \A x \in Items : IsIn(x, w) => x[2] = t /\ x[1] # "commit"
    BY <1>1, <1>2
  <2> QED
    BY <1>2, <1>3, <2>1, <2>2, Given
<1>5. \A r \in Handles : r # s => \A o \in Ops : ~IsIn(<<o, r>>, w)
  <2>1. ASSUME NEW r \in Handles, r # s, NEW o \in Ops, IsIn(<<o, r>>, w) PROVE FALSE
    <3>1. PICK x : x = <<o, r>>
      OBVIOUS
    <3>2. IsIn(x, w) /\ x[2] = r
      BY <2>1, <3>1
    <3> QED
      BY <2>1, <3>2
  <2> QED
    BY <2>1
<1>6. ASSUME NEW r \in Handles, r # s PROVE Left'[r] = Left[r] /\ Mine'[r] = Mine[r]
  <2>1. {o \in Ops : IsIn(<<o, r>>, w)} = {}
    BY <1>5, <1>6
  <2> QED
    BY <1>4, <2>1
<1> QED
  BY <1>1, <1>2, <1>4, <1>6

\* A Zapper's thread starts to work on its session.
LEMMA Assigned ==
    ASSUME Tracked, NEW s \in Handles, ~Locked(s), NEW w \in Seq(Items), InOrder(w),
           \A x : IsIn(x, w) => x[2] = s /\ x[1] # "commit",
           work' = [work EXCEPT ![s] = w],
           Phase({o \in Ops : IsIn(<<o, s>>, w)}, disp[s], s),
           IsIn(<<"setUp", s>>, w) => mAudioFocus[s] # "none",
           UNCHANGED <<screen, disp, out, frame, strays, avpmVars>>
    PROVE  ScreensInv'
<1>1. /\ LayersTyped /\ RestTyped /\ WorkOK /\ ResolutionOK
      /\ FocusOK /\ LayersOK /\ SoundsOK /\ \A t \in Handles : DispOK(t)
  BY TrackedFacts
<1>2. /\ WorkOK' /\ AtWork' = AtWork
      /\ Left[s] = {} /\ Left'[s] = {o \in Ops : IsIn(<<o, s>>, w)}
      /\ \A r \in Handles : r # s => Left'[r] = Left[r]
      /\ \A r \in Handles : Mine'[r] = Mine[r]
  <2>1. s \in {s, "player"} /\ s # "player"
    BY Names
  <2>2. /\ WorkOK' /\ AtWork' = AtWork
        /\ Left[s] = {} /\ Left'[s] = {o \in Ops : IsIn(<<o, s>>, w)}
        /\ Mine'[s] = Mine[s]
        /\ \A r \in Handles : r # s => Left'[r] = Left[r] /\ Mine'[r] = Mine[r]
    BY <1>1, <2>1, WorkAssigned
  <2> QED
    BY <2>2
<1>3. UNCHANGED <<pgr, mMainScreenPgrHandle, mIsOutputStarted, isClosedCaptionEnabled, mIsVod,
                  resolution, slips, userSound, avQueue, changes, mAudioFocus, pending>>
  BY DEF avpmVars, avpm, user, screen
<1>4. LayersTyped' /\ LayersOK' /\ SoundsOK'
  BY <1>1, <1>3, LayersKept, SoundsKept
<1>5. RestTyped'
  BY <1>1, <1>3 DEF RestTyped
<1>6. ResolutionOK'
  BY <1>1, <1>2, <1>3, ResolutionKept DEF About
<1>7. "commit" \notin Left'[s]
  <2>1. <<"commit", s>>[1] = "commit"
    OBVIOUS
  <2> QED
    BY <1>2, <2>1
<1>8. DispOK(s)'
  BY <1>1, <1>2, <1>3, <1>7 DEF DispOK, Fresh
<1>9. ASSUME NEW t \in Handles, t # s PROVE DispOK(t)'
  BY <1>1, <1>2, <1>3, <1>9, DispKept
<1>10. FocusOK'
  BY <1>1, <1>2, <1>3, <1>7, FocusKept
<1> QED
  BY <1>2, <1>4, <1>5, <1>6, <1>8, <1>9, <1>10, StillTracked

LEMMA StartDisplayKeeps ==
    ASSUME Tracked, NEW s \in Handles, StartDisplay(s)
    PROVE  ScreensInv'
<1>1. WorkOK /\ RestTyped /\ DispOK(s)
  BY TrackedFacts
<1>2. Left[s] = {}
  BY <1>1, NotLocked DEF StartDisplay
<1>3. disp[s] \in {"none", "started", "incomplete"}
  BY <1>1, <1>2, IdleDisplay DEF RestTyped
<1>4. PICK w : w = CloseWork(s) \o StartWork(s)
  OBVIOUS
<1>5. \A x, y : IsIn(x, CloseWork(s)) /\ IsIn(y, StartWork(s)) => Before(x, y)
  <2>1. \A a \in {"stop", "close"}, b \in {"open", "setUp", "connect"} :
           Before(<<a, s>>, <<b, s>>)
    BY Ranks DEF Before
  <2> QED
    BY <2>1, CloseWorkIs, StartWorkIs
<1>6. /\ w \in Seq(Items) /\ InOrder(w)
      /\ \A x : IsIn(x, w) <=> IsIn(x, CloseWork(s)) \/ IsIn(x, StartWork(s))
  BY <1>4, <1>5, Then2, CloseWorkIs, StartWorkIs
<1>7. \A x : IsIn(x, w) <=>
         \/ disp[s] # "none" /\ (x = <<"stop", s>> \/ x = <<"close", s>>)
         \/ x = <<"setUp", s>>
         \/ s \in Films /\ x = <<"open", s>>
         \/ s \notin Films /\ x = <<"connect", s>>
  BY <1>6, CloseWorkIs, StartWorkIs
<1>8. \A x : IsIn(x, w) => x[2] = s /\ x[1] # "commit"
  BY <1>7
<1>9. PICK m : m = {o \in Ops : IsIn(<<o, s>>, w)}
  OBVIOUS
<1>10. \A o : o \in m <=> \/ disp[s] # "none" /\ o \in {"stop", "close"}
                          \/ FALSE /\ o = "commit"
                          \/ TRUE /\ o = "setUp"
                          \/ TRUE /\ s \in Films /\ o = "open"
                          \/ TRUE /\ s \notin Films /\ o = "connect"
  <2>1. \A o : IsIn(<<o, s>>, w) <=> \/ disp[s] # "none" /\ o \in {"stop", "close"}
                                     \/ o = "setUp"
                                     \/ s \in Films /\ o = "open"
                                     \/ s \notin Films /\ o = "connect"
    BY <1>7
  <2>2. {"stop", "close", "setUp", "open", "connect"} \subseteq Ops
    BY DEF Ops
  <2> QED
    BY <1>9, <2>1, <2>2
<1>11. Phase(m, disp[s], s)
  BY <1>3, <1>10, PhaseGiven
<1>12. /\ ~Locked(s) /\ work' = [work EXCEPT ![s] = w] /\ mAudioFocus[s] # "none"
       /\ UNCHANGED <<screen, disp, out, frame, strays, avpmVars>>
  BY <1>4 DEF StartDisplay
<1> QED
  BY <1>6, <1>8, <1>9, <1>11, <1>12, Assigned

LEMMA CloseDisplayKeeps ==
    ASSUME Tracked, NEW s \in Handles, CloseDisplay(s)
    PROVE  ScreensInv'
<1>1. WorkOK /\ RestTyped /\ DispOK(s)
  BY TrackedFacts
<1>2. Left[s] = {}
  BY <1>1, NotLocked DEF CloseDisplay
<1>3. disp[s] \in {"none", "started", "incomplete"} /\ disp[s] # "none"
  BY <1>1, <1>2, IdleDisplay DEF RestTyped, CloseDisplay
<1>4. PICK w : w = CloseWork(s)
  OBVIOUS
<1>5. /\ w \in Seq(Items) /\ InOrder(w)
      /\ \A x : IsIn(x, w) <=> x = <<"stop", s>> \/ x = <<"close", s>>
  BY <1>3, <1>4, CloseWorkIs
<1>6. \A x : IsIn(x, w) => x[2] = s /\ x[1] # "commit"
  BY <1>5
<1>7. PICK m : m = {o \in Ops : IsIn(<<o, s>>, w)}
  OBVIOUS
<1>8. \A o : o \in m <=> \/ disp[s] # "none" /\ o \in {"stop", "close"}
                         \/ FALSE /\ o = "commit"
                         \/ FALSE /\ o = "setUp"
                         \/ FALSE /\ s \in Films /\ o = "open"
                         \/ FALSE /\ s \notin Films /\ o = "connect"
  <2>1. \A o : IsIn(<<o, s>>, w) <=> o \in {"stop", "close"}
    BY <1>5
  <2>2. {"stop", "close"} \subseteq Ops
    BY DEF Ops
  <2> QED
    BY <1>3, <1>7, <2>1, <2>2
<1>9. Phase(m, disp[s], s)
  BY <1>3, <1>8, PhaseGiven
<1>10. ~IsIn(<<"setUp", s>>, w)
  BY <1>5
<1>11. /\ ~Locked(s) /\ work' = [work EXCEPT ![s] = w]
       /\ UNCHANGED <<screen, disp, out, frame, strays, avpmVars>>
  BY <1>4 DEF CloseDisplay
<1> QED
  BY <1>5, <1>6, <1>7, <1>9, <1>10, <1>11, Assigned

LEMMA ServiceAuthorizedKeeps ==
    ASSUME Tracked, NEW s \in Handles, ServiceAuthorized(s)
    PROVE  ScreensInv'
<1>1. disp[s] \in {"started", "incomplete"}
  BY DEF ServiceAuthorized
<1>2. PICK w : w = ConnectWork(s)
  OBVIOUS
<1>3. PICK op \in {"note", "set1080p", "connect"} :
         op = (IF s \in Films THEN "note" ELSE "connect")
  OBVIOUS
<1>4. w \in Seq(Items) /\ InOrder(w) /\ \A x : IsIn(x, w) <=> x = <<op, s>>
  BY <1>2, <1>3, ConnectWorkIs
<1>5. \A x : IsIn(x, w) => x[2] = s /\ x[1] # "commit"
  BY <1>3, <1>4
<1>6. PICK m : m = {o \in Ops : IsIn(<<o, s>>, w)}
  OBVIOUS
<1>7. \A o : IsIn(<<o, s>>, w) <=> o = op
  BY <1>4
<1>8. op \in m /\ Only(op, m)
  BY <1>3, <1>6, <1>7 DEF Only, Ops
<1>9. Phase(m, disp[s], s)
  BY <1>1, <1>3, <1>8, PhaseOnly
<1>10. ~IsIn(<<"setUp", s>>, w)
  BY <1>3, <1>7
<1>11. /\ ~Locked(s) /\ work' = [work EXCEPT ![s] = w]
       /\ UNCHANGED <<screen, disp, out, frame, strays, avpmVars>>
  BY <1>2 DEF ServiceAuthorized
<1> QED
  BY <1>4, <1>5, <1>6, <1>9, <1>10, <1>11, Assigned

LEMMA StopAndEjectKeeps ==
    ASSUME Tracked, NEW s \in Handles, StopAndEject(s)
    PROVE  ScreensInv'
<1>1. /\ LayersTyped /\ RestTyped /\ WorkOK /\ ResolutionOK
      /\ FocusOK /\ LayersOK /\ SoundsOK /\ \A t \in Handles : DispOK(t)
  BY TrackedFacts
<1>2. PICK w : w = CloseWork(s)
  OBVIOUS
<1>3. /\ w \in Seq(Items) /\ InOrder(w)
      /\ \A x : IsIn(x, w) <=>
                   disp[s] # "none" /\ (x = <<"stop", s>> \/ x = <<"close", s>>)
  BY <1>2, CloseWorkIs
<1>4. /\ WorkOK' /\ AtWork' = AtWork
      /\ Left[s] = {} /\ Left'[s] = {o \in Ops : IsIn(<<o, s>>, w)} /\ Mine'[s] = Left'[s]
      /\ \A r \in Handles : r # s => Left'[r] = Left[r] /\ Mine'[r] = Mine[r]
  <2>1. \A x : IsIn(x, w) => x[2] = s /\ x[1] # "commit"
    BY <1>3
  <2>2. /\ ~Locked(s) /\ PlayerIsFree /\ work' = [work EXCEPT !["player"] = w]
        /\ "player" \in {s, "player"}
    BY <1>2 DEF StopAndEject
  <2>3. PICK t \in {s, "player"} : t = "player"
    OBVIOUS
  <2>4. work' = [work EXCEPT ![t] = w]
    BY <2>2, <2>3
  <2> QED
    BY <1>1, <1>3, <2>1, <2>2, <2>3, <2>4, WorkAssigned
<1>5. disp[s] \in {"none", "started", "incomplete"}
  BY <1>1, <1>4, IdleDisplay DEF RestTyped
<1>6. \A o : o \in Left'[s] <=> \/ disp[s] # "none" /\ o \in {"stop", "close"}
                                \/ FALSE /\ o = "commit"
                                \/ FALSE /\ o = "setUp"
                                \/ FALSE /\ s \in Films /\ o = "open"
                                \/ FALSE /\ s \notin Films /\ o = "connect"
  <2>1. \A o : IsIn(<<o, s>>, w) <=> disp[s] # "none" /\ o \in {"stop", "close"}
    BY <1>3
  <2>2. {"stop", "close"} \subseteq Ops
    BY DEF Ops
  <2> QED
    BY <1>4, <2>1, <2>2
<1>7. Phase(Left'[s], disp[s], s)
  BY <1>5, <1>6, PhaseGiven
<1>8. UNCHANGED <<pgr, mMainScreenPgrHandle, mIsOutputStarted, isClosedCaptionEnabled, mIsVod,
                  resolution, slips, userSound, avQueue, changes, disp, out, frame, strays>>
  BY DEF StopAndEject, avpmVars, avpm, user
<1>9. /\ mAudioFocus' \in [Handles -> {"none", "main", "pip"}]
      /\ pending' \in [Handles -> {"none", "main", "pip"}]
      /\ mAudioFocus'[s] = "none" /\ pending'[s] = "none"
      /\ \A t \in Handles : t # s => mAudioFocus'[t] = mAudioFocus[t] /\ pending'[t] = pending[t]
  BY <1>1 DEF RestTyped, StopAndEject
<1>10. LayersTyped' /\ LayersOK' /\ SoundsOK'
  BY <1>1, <1>8, LayersKept, SoundsKept DEF StopAndEject
<1>11. RestTyped'
  BY <1>1, <1>8, <1>9 DEF RestTyped
<1>12. ResolutionOK'
  BY <1>1, <1>4, <1>8, ResolutionKept DEF About
<1>13. DispOK(s)'
  <2>1. "setUp" \notin Left'[s] /\ "commit" \notin Left'[s]
    BY <1>6
  <2> QED
    BY <1>1, <1>4, <1>7, <1>8, <2>1 DEF DispOK, Fresh
<1>14. ASSUME NEW t \in Handles, t # s PROVE DispOK(t)'
  BY <1>1, <1>4, <1>8, <1>9, <1>14, DispKept
<1>15. FocusOK'
  <2>1. \A t \in Handles : Mine[t] = {} /\ "commit" \notin Left[t]
    BY <1>1, PlayerFree DEF StopAndEject
  <2>2. "commit" \notin Left'[s]
    BY <1>6
  <2>3. \A t \in Handles : Final(t) = mAudioFocus[t] /\ Final(t)' = mAudioFocus'[t]
    BY <1>4, <2>1, <2>2 DEF Final
  <2>4. \A t, r \in Handles : t # r /\ mAudioFocus'[t] # "none" => mAudioFocus'[t] # mAudioFocus'[r]
    BY <1>1, <1>9, <2>3 DEF FocusOK
  <2>5. \A t \in Handles : pgr[t].audioFocus # "none"
    BY <1>1, SettingsOf DEF LayersTyped
  <2>6. \A t, r \in Handles : t # r /\ pgr[t].audioFocus # "unset" =>
           pgr[t].audioFocus # mAudioFocus'[r]
    BY <1>1, <1>9, <2>5 DEF FocusOK
  <2>7. ASSUME NEW t \in Handles
        PROVE  \/ pgr[t].audioFocus \in {"unset", mAudioFocus'[t]}
               \/ mAudioFocus'[t] = "none" /\ "close" \in Mine'[t]
    <3>1. CASE t # s
      BY <1>1, <1>9, <2>1, <3>1 DEF FocusOK
    <3>2. CASE t = s /\ disp[s] # "none"
      BY <1>4, <1>6, <1>9, <3>2
    <3>3. CASE t = s /\ disp[s] = "none"
      BY <1>1, <3>3 DEF DispOK, Fresh
    <3> QED
      BY <3>1, <3>2, <3>3
  <2> QED
    BY <1>8, <2>3, <2>4, <2>6, <2>7 DEF FocusOK
<1> QED
  BY <1>4, <1>10, <1>11, <1>12, <1>13, <1>14, <1>15, StillTracked

LEMMA FirstFrameKeeps ==
    ASSUME Tracked, NEW s \in Handles, FirstFrame(s)
    PROVE  ScreensInv'
<1>1. /\ LayersTyped /\ RestTyped /\ WorkOK /\ ResolutionOK
      /\ FocusOK /\ LayersOK /\ SoundsOK /\ \A t \in Handles : DispOK(t)
  BY TrackedFacts
<1>2. s \in Films
  BY <1>1 DEF DispOK, FirstFrame
<1>3. PICK w : w = << <<"note", s>> >>
  OBVIOUS
<1>4. work' = [work EXCEPT !["media"] = w]
  BY <1>2, <1>3 DEF FirstFrame, ConnectWork
<1>5. WorkOK' /\ Left' = Left /\ Mine' = Mine /\ work'["media"] = w
  BY <1>1, <1>2, <1>3, <1>4, MediaGiven
<1>6. AtWork = {} /\ AtWork' = {s}
  <2>1. AtWork = {}
    BY <1>1, MediaFacts DEF FirstFrame
  <2>2. AtWork' = {s}
    BY <1>3, <1>5 DEF AtWork
  <2> QED
    BY <2>1, <2>2
<1>7. UNCHANGED <<pgr, mMainScreenPgrHandle, mIsOutputStarted, isClosedCaptionEnabled, mIsVod,
                  resolution, slips, userSound, avQueue, changes, disp, out, strays,
                  mAudioFocus, pending>>
  BY DEF FirstFrame, avpmVars, avpm, user, screen
<1>8. LayersTyped' /\ LayersOK' /\ SoundsOK'
  BY <1>1, <1>7, LayersKept, SoundsKept DEF FirstFrame
<1>9. /\ frame' \in [Handles -> BOOLEAN]
      /\ \A t \in Handles : frame'[t] => frame[t]
  BY <1>1 DEF RestTyped, FirstFrame
<1>10. RestTyped'
  BY <1>1, <1>7, <1>9 DEF RestTyped
<1>11. ResolutionOK'
  BY <1>1, <1>6, <1>7, ResolutionKept DEF About
<1>12. ASSUME NEW t \in Handles PROVE DispOK(t)'
  <2>1. frame'[t] \/ t \in AtWork' => frame[t]
    BY <1>6, <1>9 DEF FirstFrame
  <2> QED
    BY <1>1, <1>5, <1>7, <2>1, DispKept
<1>13. FocusOK'
  BY <1>1, <1>5, <1>7, FocusKept
<1> QED
  BY <1>5, <1>8, <1>10, <1>11, <1>12, <1>13, StillTracked

\* The output of a film takes its resolution away, or that is known.
LEMMA FrozenResolution ==
    ASSUME RestTyped, NEW s \in Handles, freezeVideo(s, s \in Films)
    PROVE  /\ resolution' \in [output : {"user", "1080p"}, active : BOOLEAN]
           /\ slips' \subseteq {"resolution"} /\ mIsVod' = mIsVod
           /\ ResolutionOK /\ slips' = {} /\ (\A t \in Handles : t # s /\ About(t) => About(t)') =>
                 ResolutionOK'
<1>1. mIsVod' = mIsVod
  BY DEF freezeVideo
<1>2. CASE resolution.active /\ s \in Films
  <2>1. \/ resolution' = BackToUser /\ UNCHANGED slips
        \/ UNCHANGED resolution /\ slips' = slips \cup {"resolution"}
    BY <1>2 DEF freezeVideo
  <2>2. CASE resolution' = BackToUser /\ UNCHANGED slips
    <3>1. resolution' \in [output : {"user", "1080p"}, active : BOOLEAN]
      BY <2>2 DEF BackToUser
    <3>2. ~resolution'.active /\ resolution'.output = "user"
      BY <2>2 DEF BackToUser
    <3>3. ResolutionOK'
      BY <3>2 DEF ResolutionOK
    <3> QED
      BY <1>1, <2>2, <3>1, <3>3 DEF RestTyped
  <2>3. CASE UNCHANGED resolution /\ slips' = slips \cup {"resolution"}
    <3>1. slips' # {}
      BY <2>3
    <3> QED
      BY <1>1, <2>3, <3>1 DEF RestTyped
  <2> QED
    BY <2>1, <2>2, <2>3
<1>3. CASE ~(resolution.active /\ s \in Films)
  <2>1. UNCHANGED <<resolution, slips>>
    BY <1>3 DEF freezeVideo
  <2> QED
    BY <1>1, <1>3, <2>1 DEF RestTyped, ResolutionOK
<1> QED
  BY <1>2, <1>3

LEMMA ServiceDeAuthorizedKeeps ==
    ASSUME Tracked, NEW s \in Handles, ServiceDeAuthorized(s)
    PROVE  ScreensInv'
<1>1. /\ LayersTyped /\ RestTyped /\ WorkOK /\ ResolutionOK
      /\ FocusOK /\ LayersOK /\ SoundsOK /\ \A t \in Handles : DispOK(t)
  BY TrackedFacts
<1>2. WorkOK' /\ Left' = Left /\ Mine' = Mine /\ AtWork' = AtWork
  BY <1>1, WorkUnchanged DEF ServiceDeAuthorized
<1>3. UNCHANGED <<mAudioFocus, pending, disp, frame, strays, userSound, avQueue>>
  BY DEF ServiceDeAuthorized, screen
<1>4. pgr[s].audioFocus # "unset"
  BY <1>1 DEF DispOK, Fresh, ServiceDeAuthorized
<1>5. (s \in Films) \in BOOLEAN
  OBVIOUS
<1>6. /\ LayersOK' /\ LayersTyped' /\ FocusSame(pgr, pgr') /\ SoundSame(pgr, pgr')
      /\ \A t \in Handles : pgr'[t].shown => pgr[t].shown
  BY <1>1, <1>4, <1>5, Frozen DEF ServiceDeAuthorized
<1>7. /\ resolution' \in [output : {"user", "1080p"}, active : BOOLEAN]
      /\ slips' \subseteq {"resolution"} /\ mIsVod' = mIsVod
      /\ slips' = {} => ResolutionOK'
  <2>1. \A t \in Handles : About(t) => About(t)'
    BY <1>2, <1>3 DEF About
  <2> QED
    BY <1>1, <2>1, FrozenResolution DEF ServiceDeAuthorized
<1>8. changes' \in 0..MaxChanges
  BY <1>1, AvpmAssumption DEF RestTyped, ServiceDeAuthorized, Change
<1>9. RestTyped'
  BY <1>1, <1>3, <1>7, <1>8 DEF RestTyped
<1>10. ASSUME NEW t \in Handles PROVE DispOK(t)'
  BY <1>1, <1>2, <1>3, <1>6, DispKept DEF FocusSame
<1>11. FocusOK'
  BY <1>1, <1>2, <1>3, <1>6, FocusKept DEF FocusSame
<1>12. SoundsOK'
  BY <1>1, <1>3, <1>6, SoundsKept DEF FocusSame, SoundSame
<1> QED
  BY <1>2, <1>6, <1>7, <1>9, <1>10, <1>11, <1>12 DEF ScreensInv, ScreensOK

------------------------------------------------------------------------------
(* The user and the event thread of Avpm *)

LEMMA UserKeeps ==
    ASSUME Tracked, AvpmThread \/ UserChanges, UNCHANGED presentation
    PROVE  ScreensInv'
<1>1. /\ LayersTyped /\ RestTyped /\ WorkOK /\ ResolutionOK
      /\ FocusOK /\ LayersOK /\ SoundsOK /\ \A t \in Handles : DispOK(t)
  BY TrackedFacts
<1>2. UNCHANGED <<mAudioFocus, pending, disp, out, frame, work, strays>>
  BY DEF presentation, screen
<1>3. WorkOK' /\ Left' = Left /\ Mine' = Mine /\ AtWork' = AtWork
  BY <1>1, <1>2, WorkUnchanged
<1>4. SUFFICES /\ LayersOK' /\ LayersTyped' /\ SoundsOK' /\ FocusSame(pgr, pgr')
               /\ \A t \in Handles : pgr'[t].shown = pgr[t].shown
               /\ userSound' \in Sounds /\ avQueue' \in Seq(Sounds) /\ changes' \in 0..MaxChanges
               /\ UNCHANGED <<mIsVod, slips>>
               /\ \/ UNCHANGED resolution
                  \/ resolution' = BackToUser
                  \/ resolution' = [resolution EXCEPT !.output = "user"]
  <2>1. resolution' \in [output : {"user", "1080p"}, active : BOOLEAN]
    <3>1. BackToUser \in [output : {"user", "1080p"}, active : BOOLEAN]
      BY DEF BackToUser
    <3>2. /\ resolution \in [output : {"user", "1080p"}, active : BOOLEAN]
          /\ [resolution EXCEPT !.output = "user"] \in [output : {"user", "1080p"}, active : BOOLEAN]
      BY <1>1 DEF RestTyped
    <3> QED
      BY <1>4, <3>1, <3>2
  <2>2. RestTyped'
    BY <1>1, <1>2, <1>4, <2>1 DEF RestTyped
  <2>3. ResolutionOK'
    <3>1. \A t \in Handles : About(t)' <=> About(t)
      BY <1>2, <1>3 DEF About
    <3>2. CASE UNCHANGED resolution
      BY <1>1, <3>1, <3>2 DEF ResolutionOK
    <3>3. CASE resolution' = BackToUser
      <4>1. ~resolution'.active /\ resolution'.output = "user"
        BY <3>3 DEF BackToUser
      <4> QED
        BY <4>1 DEF ResolutionOK
    <3>4. CASE resolution' = [resolution EXCEPT !.output = "user"]
      <4>1. resolution'.active = resolution.active /\ resolution'.output = "user"
        BY <1>1, <3>4 DEF RestTyped
      <4> QED
        BY <1>1, <3>1, <4>1 DEF ResolutionOK
    <3> QED
      BY <1>4, <3>2, <3>3, <3>4
  <2>4. ASSUME NEW t \in Handles PROVE DispOK(t)'
    BY <1>1, <1>2, <1>3, <1>4, DispKept DEF FocusSame
  <2>5. FocusOK'
    BY <1>1, <1>2, <1>3, <1>4, FocusKept DEF FocusSame
  <2> QED
    BY <1>3, <1>4, <2>2, <2>3, <2>4, <2>5, StillTracked
<1>5. Change => changes' \in 0..MaxChanges
  BY <1>1, AvpmAssumption DEF RestTyped, Change
<1>6. CASE AvpmThread
  <2>1. PICK sound : sound = Head(avQueue)
    OBVIOUS
  <2>2. /\ avQueue # <<>> /\ avQueue' = Tail(avQueue)
        /\ pgr' = MasterMute(mMainScreenPgrHandle, sound)
        /\ UNCHANGED <<mMainScreenPgrHandle, mIsOutputStarted, isClosedCaptionEnabled, mIsVod,
                       resolution, slips, userSound, changes>>
    BY <1>6, <2>1 DEF AvpmThread
  <2>3. /\ sound \in Sounds /\ avQueue' \in Seq(Sounds)
        /\ Len(avQueue) \in Nat \ {0} /\ Len(avQueue') = Len(avQueue) - 1
        /\ \A i \in 1..Len(avQueue) - 1 : avQueue'[i] = avQueue[i + 1]
        /\ sound = avQueue[1]
    BY <1>1, <2>1, <2>2, HeadTailProperties, EmptySeq DEF RestTyped
  <2>4. avQueue' # <<>> => avQueue'[Len(avQueue')] = userSound
    <3>1. ASSUME avQueue' # <<>>
          PROVE  avQueue'[Len(avQueue')] = userSound
      <4>1. Len(avQueue') # 0
        BY <2>3, <3>1, EmptySeq
      <4>2. Len(avQueue) - 1 \in 1..Len(avQueue) - 1 /\ Len(avQueue) - 1 + 1 = Len(avQueue)
        BY <2>3, <4>1
      <4>3. avQueue[Len(avQueue)] = userSound
        BY <1>1, <2>2 DEF SoundsOK
      <4> QED
        BY <2>3, <4>2, <4>3
    <3> QED
      BY <3>1
  <2>5. avQueue' = <<>> => sound = userSound
    <3>1. ASSUME avQueue' = <<>> PROVE sound = userSound
      <4>1. Len(avQueue) = 1
        BY <2>3, <3>1
      <4> QED
        BY <1>1, <2>2, <2>3, <4>1 DEF SoundsOK
    <3> QED
      BY <3>1
  <2>6. /\ LayersOK' /\ LayersTyped' /\ FocusSame(pgr, pgr')
        /\ \A t \in Handles :
              /\ pgr'[t].shown = pgr[t].shown
              /\ \/ pgr'[t].sound = sound
                 \/ /\ pgr'[t].sound = pgr[t].sound
                    /\ pgr[t].sound # "unset" => pgr'[t].missed
    BY <1>1, <1>2, <2>2, <2>3, Muted
  <2>7. SoundsOK'
    <3>1. ASSUME NEW t \in Handles, pgr'[t].audioFocus # "unset"
          PROVE  /\ pgr'[t].sound # "unset"
                 /\ pgr'[t].sound = userSound \/ pgr'[t].missed \/ avQueue' # <<>>
      <4>1. pgr[t].sound # "unset"
        BY <1>1, <2>6, <3>1 DEF SoundsOK, FocusSame
      <4> QED
        BY <2>3, <2>5, <2>6, <4>1, AvpmAssumption
    <3> QED
      BY <2>2, <2>4, <3>1 DEF SoundsOK
  <2> QED
    BY <1>1, <2>2, <2>3, <2>6, <2>7 DEF RestTyped
<1>7. ASSUME NEW sound \in Sounds, UserSetsSound(sound)
      PROVE  /\ LayersOK' /\ LayersTyped' /\ SoundsOK' /\ UNCHANGED avpm
             /\ userSound' \in Sounds /\ avQueue' \in Seq(Sounds) /\ changes' \in 0..MaxChanges
  <2>1. UNCHANGED avpm /\ userSound' = sound /\ avQueue' = Append(avQueue, sound)
    BY <1>7 DEF UserSetsSound
  <2>2. /\ avQueue' \in Seq(Sounds) /\ Len(avQueue') # 0
        /\ avQueue'[Len(avQueue')] = sound
    BY <1>1, <2>1, AppendProperties DEF RestTyped
  <2>3. avQueue' # <<>>
    BY <2>2
  <2>4. SoundsOK'
    BY <1>1, <2>1, <2>2, <2>3 DEF SoundsOK, avpm
  <2>5. LayersOK' /\ LayersTyped'
    BY <1>1, <1>2, <2>1 DEF LayersOK, LayersTyped, avpm
  <2> QED
    BY <1>5, <1>7, <2>1, <2>2, <2>4, <2>5 DEF UserSetsSound
<1>8. CASE UserSetsResolution
  <2>1. /\ UNCHANGED <<pgr, mMainScreenPgrHandle, mIsOutputStarted, isClosedCaptionEnabled,
                       mIsVod, slips, userSound, avQueue>>
        /\ \/ resolution' = BackToUser
           \/ resolution' = [resolution EXCEPT !.output = "user"]
        /\ Change
    BY <1>8 DEF UserSetsResolution
  <2>2. LayersOK' /\ LayersTyped' /\ SoundsOK'
    BY <1>1, <1>2, <2>1 DEF LayersOK, LayersTyped, SoundsOK
  <2> QED
    BY <1>1, <1>5, <2>1, <2>2 DEF FocusSame, RestTyped
<1>9. ASSUME NEW on \in BOOLEAN, UserSetsCaptions(on)
      PROVE  /\ LayersOK' /\ LayersTyped' /\ SoundsOK' /\ FocusSame(pgr, pgr')
             /\ \A t \in Handles : pgr'[t].shown = pgr[t].shown
             /\ UNCHANGED <<mIsVod, resolution, slips, userSound, avQueue>>
             /\ changes' \in 0..MaxChanges
  <2>1. /\ setCc(on) /\ Change
        /\ UNCHANGED <<mMainScreenPgrHandle, mIsOutputStarted, mIsVod, resolution,
                       slips, userSound, avQueue>>
    BY <1>9 DEF UserSetsCaptions
  <2>2. /\ LayersOK' /\ LayersTyped' /\ FocusSame(pgr, pgr') /\ SoundSame(pgr, pgr')
        /\ \A t \in Handles : pgr'[t].shown = pgr[t].shown
    BY <1>1, <1>2, <2>1, CaptionsSet
  <2>3. SoundsOK'
    BY <1>1, <2>1, <2>2, SoundsKept DEF FocusSame, SoundSame
  <2> QED
    BY <1>5, <2>1, <2>2, <2>3
<1> QED
  BY <1>1, <1>6, <1>7, <1>8, <1>9 DEF UserChanges, RestTyped, avpm, FocusSame

------------------------------------------------------------------------------
(* The threads *)

LEMMA OwnerOf ==
    ASSUME WorkOK, NEW t \in Threads, NEW s \in Handles, NEW op, Take(t, op, s),
           t # "media" \/ op \notin {"note", "set1080p", "connect"}
    PROVE  t \in Owners
BY MediaFacts DEF Owners, Threads

\* Performed, with what Phase asks for.
LEMMA OneDone ==
    ASSUME Tracked, NEW t \in Owners, NEW s \in Handles, NEW op \in Ops,
           Take(t, op, s), Done(t)
    PROVE  /\ WorkOK' /\ AtWork' = AtWork
           /\ Left[s] \in SUBSET Ops /\ disp[s] \in Displays /\ Phase(Left[s], disp[s], s)
           /\ Follows(Left[s], op, Left'[s]) /\ Mine'[s] = Mine[s] \ {op}
           /\ \A r \in Handles : r # s => Left'[r] = Left[r] /\ Mine'[r] = Mine[r]
           /\ op \in Mine[s] => \A r \in Handles : r # s =>
                                   \A o \in Mine[r] : Class(op) <= Class(o)
<1>1. WorkOK /\ RestTyped /\ DispOK(s)
  BY TrackedFacts
<1>2. /\ WorkOK' /\ AtWork' = AtWork
      /\ op \in Left[s] /\ Left'[s] = Left[s] \ {op} /\ Mine'[s] = Mine[s] \ {op}
      /\ \A o \in Left'[s] : Rank(op) < Rank(o)
      /\ \A r \in Handles : r # s => Left'[r] = Left[r] /\ Mine'[r] = Mine[r]
      /\ op \in Mine[s] => \A r \in Handles : r # s =>
                              \A o \in Mine[r] : Class(op) <= Class(o)
  BY <1>1, Performed
<1>3. Left[s] \in SUBSET Ops
  BY <1>1, LeftFacts
<1> QED
  BY <1>1, <1>2, <1>3 DEF Follows, DispOK, RestTyped

LEMMA StopKeeps ==
    ASSUME Tracked, NEW t \in Threads, NEW s \in Handles, Stop(t, s)
    PROVE  ScreensInv'
<1>1. /\ LayersTyped /\ RestTyped /\ WorkOK /\ ResolutionOK
      /\ FocusOK /\ LayersOK /\ SoundsOK /\ \A r \in Handles : DispOK(r)
  BY TrackedFacts
<1>2. t \in Owners /\ "stop" \in Ops
  BY <1>1, OwnerOf DEF Stop, Ops
<1>3. /\ WorkOK' /\ AtWork' = AtWork
      /\ Left[s] \in SUBSET Ops /\ disp[s] \in Displays /\ Phase(Left[s], disp[s], s)
      /\ Follows(Left[s], "stop", Left'[s]) /\ Mine'[s] = Mine[s] \ {"stop"}
      /\ \A r \in Handles : r # s => Left'[r] = Left[r] /\ Mine'[r] = Mine[r]
  BY <1>2, OneDone DEF Stop
<1>4. Phase(Left'[s], "stopped", s) /\ disp[s] \in {"started", "incomplete"}
  BY <1>3, PhaseStop
<1>5. UNCHANGED <<mAudioFocus, pending, frame, strays, userSound, avQueue, changes>>
  BY DEF Stop, screen, user
<1>6. /\ disp' \in [Handles -> Displays] /\ disp'[s] = "stopped"
      /\ \A r \in Handles : r # s => disp'[r] = disp[r]
  BY <1>1 DEF RestTyped, Stop, Displays
<1>7. pgr[s].audioFocus # "unset" /\ (s \in Films) \in BOOLEAN
  BY <1>1, <1>4 DEF DispOK, Fresh
<1>8. /\ LayersOK' /\ LayersTyped' /\ FocusSame(pgr, pgr') /\ SoundSame(pgr, pgr')
      /\ ~pgr'[s].shown
      /\ \A r \in Handles : pgr'[r].shown => pgr[r].shown
  BY <1>1, <1>7, Frozen DEF Stop
<1>9. /\ resolution' \in [output : {"user", "1080p"}, active : BOOLEAN]
      /\ slips' \subseteq {"resolution"} /\ mIsVod' = mIsVod
      /\ slips' = {} => ResolutionOK'
  <2>1. \A r \in Handles : r # s /\ About(r) => About(r)'
    BY <1>3, <1>6 DEF About
  <2> QED
    BY <1>1, <2>1, FrozenResolution DEF Stop
<1>10. RestTyped'
  BY <1>1, <1>5, <1>6, <1>9 DEF RestTyped
<1>11. DispOK(s)'
  BY <1>1, <1>3, <1>4, <1>5, <1>6, <1>7, <1>8 DEF DispOK, Fresh, FocusSame, Follows
<1>12. ASSUME NEW r \in Handles, r # s PROVE DispOK(r)'
  BY <1>1, <1>3, <1>5, <1>6, <1>8, <1>12, DispKept DEF FocusSame
<1>13. FocusOK'
  BY <1>1, <1>3, <1>5, <1>8, FocusKept DEF FocusSame, Follows
<1>14. SoundsOK'
  BY <1>1, <1>5, <1>8, SoundsKept DEF FocusSame, SoundSame
<1> QED
  BY <1>3, <1>8, <1>9, <1>10, <1>11, <1>12, <1>13, <1>14 DEF ScreensInv, ScreensOK

LEMMA CloseKeeps ==
    ASSUME Tracked, NEW t \in Threads, NEW s \in Handles, Close(t, s)
    PROVE  ScreensInv'
<1>1. /\ LayersTyped /\ RestTyped /\ WorkOK /\ ResolutionOK
      /\ FocusOK /\ LayersOK /\ SoundsOK /\ \A r \in Handles : DispOK(r)
  BY TrackedFacts
<1>2. t \in Owners /\ "close" \in Ops
  BY <1>1, OwnerOf DEF Close, Ops
<1>3. /\ WorkOK' /\ AtWork' = AtWork
      /\ Left[s] \in SUBSET Ops /\ disp[s] \in Displays /\ Phase(Left[s], disp[s], s)
      /\ Follows(Left[s], "close", Left'[s]) /\ Mine'[s] = Mine[s] \ {"close"}
      /\ \A r \in Handles : r # s => Left'[r] = Left[r] /\ Mine'[r] = Mine[r]
  BY <1>2, OneDone DEF Close
<1>4. Phase(Left'[s], "none", s) /\ disp[s] = "stopped"
  BY <1>3, PhaseClose
<1>5. UNCHANGED <<mAudioFocus, pending, out, strays, userSound, avQueue, changes,
                  mIsVod, resolution, slips>>
  BY DEF Close, screen, user, disconnectOutput
<1>6. /\ disp' \in [Handles -> Displays] /\ disp'[s] = "none"
      /\ \A r \in Handles : r # s => disp'[r] = disp[r]
      /\ frame' \in [Handles -> BOOLEAN] /\ ~frame'[s]
      /\ \A r \in Handles : r # s => frame'[r] = frame[r]
  BY <1>1 DEF RestTyped, Close, Displays
<1>7. s \notin AtWork
  <2>1. work["media"] \in Seq(Items)
    BY <1>1, Names DEF WorkOK
  <2>2. DOMAIN work["media"] = 1..Len(work["media"])
    BY <2>1
  <2> QED
    BY <2>2 DEF AtWork, Close
<1>8. ~pgr[s].shown
  BY <1>1, <1>4 DEF DispOK
<1>9. /\ LayersOK' /\ LayersTyped'
      /\ pgr'[s].audioFocus = "unset" /\ \A r \in Handles : r # s => pgr'[r] = pgr[r]
  BY <1>1, <1>5, <1>8, Disconnected DEF Close
<1>10. RestTyped'
  BY <1>1, <1>5, <1>6 DEF RestTyped
<1>11. ResolutionOK'
  <2>1. \A r \in Handles : About(r) => About(r)'
    BY <1>3, <1>4, <1>6, <1>7 DEF About
  <2> QED
    BY <1>1, <1>5, <2>1, ResolutionKept
<1>12. DispOK(s)'
  BY <1>1, <1>3, <1>4, <1>5, <1>6, <1>7, <1>9 DEF DispOK, Fresh, Follows
<1>13. ASSUME NEW r \in Handles, r # s PROVE DispOK(r)'
  BY <1>1, <1>3, <1>5, <1>6, <1>9, <1>13, DispKept
<1>14. FocusOK'
  BY <1>1, <1>3, <1>5, <1>9, FocusKept DEF Follows
<1>15. SoundsOK'
  BY <1>1, <1>5, <1>9, SoundsKept
<1> QED
  BY <1>3, <1>9, <1>10, <1>11, <1>12, <1>13, <1>14, <1>15, StillTracked

LEMMA OpenKeeps ==
    ASSUME Tracked, NEW t \in Threads, NEW s \in Handles, Open(t, s)
    PROVE  ScreensInv'
<1>1. /\ LayersTyped /\ RestTyped /\ WorkOK /\ ResolutionOK
      /\ FocusOK /\ LayersOK /\ SoundsOK /\ \A r \in Handles : DispOK(r)
  BY TrackedFacts
<1>2. t \in Owners /\ "open" \in Ops
  BY <1>1, OwnerOf DEF Open, Ops
<1>3. /\ WorkOK' /\ AtWork' = AtWork
      /\ Left[s] \in SUBSET Ops /\ disp[s] \in Displays /\ Phase(Left[s], disp[s], s)
      /\ Follows(Left[s], "open", Left'[s]) /\ Mine'[s] = Mine[s] \ {"open"}
      /\ \A r \in Handles : r # s => Left'[r] = Left[r] /\ Mine'[r] = Mine[r]
  BY <1>2, OneDone DEF Open
<1>4. Phase(Left'[s], "starting", s) /\ disp[s] = "none" /\ s \in Films
  BY <1>3, PhaseOpen
<1>5. UNCHANGED <<pgr, mMainScreenPgrHandle, mIsOutputStarted, isClosedCaptionEnabled, mIsVod,
                  resolution, slips, userSound, avQueue, changes, out, strays,
                  mAudioFocus, pending>>
  BY DEF Open, avpmVars, avpm, user, screen
<1>6. /\ disp' \in [Handles -> Displays] /\ disp'[s] = "starting"
      /\ \A r \in Handles : r # s => disp'[r] = disp[r]
      /\ frame' \in [Handles -> BOOLEAN]
      /\ \A r \in Handles : r # s => frame'[r] = frame[r]
  BY <1>1 DEF RestTyped, Open, Displays
<1>7. LayersTyped' /\ LayersOK' /\ SoundsOK'
  BY <1>1, <1>5, LayersKept, SoundsKept DEF Open
<1>8. RestTyped'
  BY <1>1, <1>5, <1>6 DEF RestTyped
<1>9. ResolutionOK'
  <2>1. \A r \in Handles : About(r) => About(r)'
    BY <1>3, <1>4, <1>6 DEF About
  <2> QED
    BY <1>1, <1>5, <2>1, ResolutionKept
<1>10. DispOK(s)'
  BY <1>1, <1>3, <1>4, <1>5, <1>6 DEF DispOK, Fresh, Follows
<1>11. ASSUME NEW r \in Handles, r # s PROVE DispOK(r)'
  BY <1>1, <1>3, <1>5, <1>6, <1>11, DispKept
<1>12. FocusOK'
  BY <1>1, <1>3, <1>5, FocusKept DEF Follows
<1> QED
  BY <1>3, <1>7, <1>8, <1>9, <1>10, <1>11, <1>12, StillTracked

LEMMA SetUpKeeps ==
    ASSUME Tracked, NEW t \in Threads, NEW s \in Handles, setUpDfbThroughAvpm(t, s)
    PROVE  ScreensInv'
<1>1. /\ LayersTyped /\ RestTyped /\ WorkOK /\ ResolutionOK
      /\ FocusOK /\ LayersOK /\ SoundsOK /\ \A r \in Handles : DispOK(r)
  BY TrackedFacts
<1>2. t \in Owners /\ "setUp" \in Ops
  BY <1>1, OwnerOf DEF setUpDfbThroughAvpm, Ops
<1>3. /\ WorkOK' /\ AtWork' = AtWork
      /\ Left[s] \in SUBSET Ops /\ disp[s] \in Displays /\ Phase(Left[s], disp[s], s)
      /\ Follows(Left[s], "setUp", Left'[s]) /\ Mine'[s] = Mine[s] \ {"setUp"}
      /\ \A r \in Handles : r # s => Left'[r] = Left[r] /\ Mine'[r] = Mine[r]
      /\ "setUp" \in Mine[s] => \A r \in Handles : r # s =>
                                   \A o \in Mine[r] : Class("setUp") <= Class(o)
  BY <1>2, OneDone DEF setUpDfbThroughAvpm
<1>4. PICK d \in Displays : d = IF s \in Films THEN "started" ELSE "starting"
  BY DEF Displays
<1>5. /\ Phase(Left'[s], d, s) /\ "commit" \notin Left[s] /\ "setUp" \in Left[s]
      /\ disp[s] = IF s \in Films THEN "starting" ELSE "none"
  BY <1>3, <1>4, PhaseSetUp DEF Follows
<1>6. UNCHANGED <<mAudioFocus, pending, out, frame, strays, userSound, avQueue, changes,
                  resolution, slips>>
  BY DEF setUpDfbThroughAvpm, screen, user, setUp
<1>7. /\ disp' \in [Handles -> Displays] /\ disp'[s] = d
      /\ \A r \in Handles : r # s => disp'[r] = disp[r]
  BY <1>1, <1>4 DEF RestTyped, setUpDfbThroughAvpm
<1>8. PICK f \in {"main", "pip"} : f = mAudioFocus[s]
  BY <1>1, <1>5 DEF DispOK, RestTyped
<1>9. pgr[s].audioFocus = "unset" /\ \A r \in Handles : pgr[r].audioFocus # f
  <2>1. pgr[s].audioFocus = "unset"
    BY <1>1, <1>5 DEF DispOK, Fresh
  <2>2. ASSUME NEW r \in Handles, r # s PROVE pgr[r].audioFocus # f
    BY <1>1, <1>8, <2>2 DEF FocusOK
  <2> QED
    BY <2>1, <2>2
<1>10. /\ LayersOK' /\ LayersTyped'
       /\ pgr'[s].audioFocus = f /\ pgr'[s].sound = userSound
       /\ \A r \in Handles : r # s => /\ pgr'[r].audioFocus = pgr[r].audioFocus
                                      /\ pgr'[r].sound = pgr[r].sound
                                      /\ pgr'[r].missed = pgr[r].missed
       /\ \A r \in Handles : pgr'[r].shown = pgr[r].shown
  BY <1>1, <1>6, <1>8, <1>9, SetUp DEF setUpDfbThroughAvpm, RestTyped
<1>11. mIsVod' \in BOOLEAN
  BY DEF setUpDfbThroughAvpm, setUp
<1>12. RestTyped'
  BY <1>1, <1>6, <1>7, <1>11 DEF RestTyped
<1>13. ResolutionOK'
  <2>1. \A r \in Handles : About(r) => About(r)'
    BY <1>3, <1>4, <1>7 DEF About
  <2> QED
    BY <1>1, <1>6, <2>1, ResolutionKept
<1>14. DispOK(s)'
  BY <1>1, <1>3, <1>4, <1>5, <1>6, <1>7, <1>8, <1>10 DEF DispOK, Fresh, Follows
<1>15. ASSUME NEW r \in Handles, r # s PROVE DispOK(r)'
  BY <1>1, <1>3, <1>6, <1>7, <1>10, <1>15, DispKept
\* It is the first thing the player has left to do that is no commit.
<1>16. ASSUME NEW r \in Handles, r # s PROVE mAudioFocus[r] # f
  <2>1. SUFFICES ASSUME mAudioFocus[r] = f PROVE FALSE
    OBVIOUS
  <2>2. "setUp" \in Mine[s] /\ "commit" \in Left[r]
    BY <1>1, <1>5, <1>8, <1>16, <2>1 DEF FocusOK
  <2>3. "commit" \in Mine[r]
    BY <1>1, <2>2, LeftFacts
  <2> QED
    BY <1>3, <1>16, <2>2, <2>3, Ranks
<1>17. FocusOK'
  <2>1. \A r \in Handles : Final(r)' = Final(r)
    BY <1>3, <1>6 DEF Final, Follows
  <2>2. \A r, q \in Handles : r # q /\ Final(r)' # "none" => Final(r)' # Final(q)'
    BY <1>1, <2>1 DEF FocusOK
  <2>3. ASSUME NEW r \in Handles, NEW q \in Handles,
               r # q, mAudioFocus[r] # "none", mAudioFocus[r] = mAudioFocus[q]
        PROVE  /\ "setUp" \in Mine'[r] /\ "setUp" \in Mine'[q]
               /\ "commit" \in Left'[r] \/ "commit" \in Left'[q]
    <3>1. r # s /\ q # s
      BY <1>8, <1>16, <2>3
    <3> QED
      BY <1>1, <1>3, <2>3, <3>1 DEF FocusOK
  <2>4. \A r, q \in Handles : r # q /\ pgr'[r].audioFocus # "unset" =>
           pgr'[r].audioFocus # mAudioFocus[q]
    BY <1>1, <1>10, <1>16 DEF FocusOK
  <2>5. \A r \in Handles :
           \/ pgr'[r].audioFocus \in {"unset", mAudioFocus[r]}
           \/ mAudioFocus[r] = "none" /\ "close" \in Mine'[r]
    BY <1>1, <1>3, <1>8, <1>10 DEF FocusOK
  <2> QED
    BY <1>6, <2>2, <2>3, <2>4, <2>5 DEF FocusOK
<1>18. SoundsOK'
  <2>1. userSound # "unset"
    BY <1>1, AvpmAssumption DEF RestTyped
  <2> QED
    BY <1>1, <1>6, <1>10, <2>1 DEF SoundsOK
<1> QED
  BY <1>3, <1>10, <1>12, <1>13, <1>14, <1>15, <1>17, <1>18, StillTracked

LEMMA CommitSessionKeeps ==
    ASSUME Tracked, NEW s \in Handles, CommitSession(s)
    PROVE  ScreensInv'
<1>1. /\ LayersTyped /\ RestTyped /\ WorkOK /\ ResolutionOK
      /\ FocusOK /\ LayersOK /\ SoundsOK /\ \A r \in Handles : DispOK(r)
  BY TrackedFacts
<1>2. "player" \in Owners /\ "commit" \in Ops
  BY Names DEF Ops
<1>3. /\ WorkOK' /\ AtWork' = AtWork
      /\ Left[s] \in SUBSET Ops /\ disp[s] \in Displays /\ Phase(Left[s], disp[s], s)
      /\ Follows(Left[s], "commit", Left'[s]) /\ Mine'[s] = Mine[s] \ {"commit"}
      /\ \A r \in Handles : r # s => Left'[r] = Left[r] /\ Mine'[r] = Mine[r]
      /\ "commit" \in Mine[s] => \A r \in Handles : r # s =>
                                    \A o \in Mine[r] : Class("commit") <= Class(o)
  BY <1>2, OneDone DEF CommitSession
<1>4. Phase(Left'[s], disp[s], s) /\ disp[s] = "none" /\ "setUp" \in Left'[s]
  BY <1>3, PhaseCommit
<1>5. "commit" \in Left[s] /\ "commit" \notin Left'[s] /\ "commit" \in Mine[s]
  BY <1>1, <1>3, LeftFacts DEF Follows
<1>6. UNCHANGED <<pgr, mMainScreenPgrHandle, mIsOutputStarted, isClosedCaptionEnabled, mIsVod,
                  resolution, slips, userSound, avQueue, changes, out, strays, disp, frame>>
  BY DEF CommitSession, avpmVars, avpm, user
<1>7. /\ mAudioFocus' \in [Handles -> {"none", "main", "pip"}]
      /\ pending' \in [Handles -> {"none", "main", "pip"}]
      /\ mAudioFocus'[s] = pending[s] /\ pending[s] # "none"
      /\ \A r \in Handles : r # s => mAudioFocus'[r] = mAudioFocus[r] /\ pending'[r] = pending[r]
  BY <1>1, <1>5 DEF RestTyped, CommitSession, DispOK
<1>8. LayersTyped' /\ LayersOK' /\ SoundsOK'
  BY <1>1, <1>6, LayersKept, SoundsKept DEF CommitSession
<1>9. RestTyped'
  BY <1>1, <1>6, <1>7 DEF RestTyped
<1>10. ResolutionOK'
  BY <1>1, <1>3, <1>6, ResolutionKept DEF About
<1>11. DispOK(s)'
  BY <1>1, <1>3, <1>4, <1>5, <1>6, <1>7 DEF DispOK, Fresh
<1>12. ASSUME NEW r \in Handles, r # s PROVE DispOK(r)'
  BY <1>1, <1>3, <1>6, <1>7, <1>12, DispKept
\* Everything that was to be closed is.
<1>13. ASSUME NEW r \in Handles, r # s
       PROVE  /\ "close" \notin Mine[r]
              /\ "commit" \in Left[r] => /\ pgr[r].audioFocus = "unset"
                                         /\ "setUp" \in Mine'[r] /\ "commit" \in Left'[r]
  <2>1. "close" \notin Mine[r]
    BY <1>3, <1>5, <1>13, Ranks
  <2>2. ASSUME "commit" \in Left[r]
        PROVE  /\ pgr[r].audioFocus = "unset"
               /\ "setUp" \in Mine'[r] /\ "commit" \in Left'[r]
    <3>1. "commit" \in Mine[r] /\ Left[r] \subseteq Mine[r]
      BY <1>1, <2>2, LeftFacts
    <3>2. "close" \notin Left[r]
      BY <2>1, <3>1
    <3>3. disp[r] = "none" /\ "setUp" \in Left[r]
      BY <1>1, <2>2, <3>2 DEF DispOK, Phase
    <3> QED
      BY <1>1, <1>3, <1>13, <2>2, <3>1, <3>3 DEF DispOK, Fresh
  <2> QED
    BY <2>1, <2>2
<1>14. pgr[s].audioFocus = "unset"
  BY <1>1, <1>4 DEF DispOK, Fresh
<1>15. FocusOK'
  <2>1. \A r \in Handles : Final(r)' = Final(r)
    <3>1. Final(s)' = Final(s)
      BY <1>5, <1>7 DEF Final
    <3>2. \A r \in Handles : r # s => Final(r)' = Final(r)
      BY <1>3, <1>7 DEF Final
    <3> QED
      BY <3>1, <3>2
  <2>2. \A r, q \in Handles : r # q /\ Final(r)' # "none" => Final(r)' # Final(q)'
    BY <1>1, <2>1 DEF FocusOK
  <2>3. "setUp" \in Mine'[s]
    BY <1>1, <1>3, <1>4, <1>5, LeftFacts DEF Follows
  <2>4. ASSUME NEW r \in Handles, r # s, mAudioFocus[r] = pending[s]
        PROVE  "setUp" \in Mine'[r] /\ "commit" \in Left'[r] /\ pgr[r].audioFocus = "unset"
    <3>1. Final(s) = pending[s] /\ Final(r) # Final(s)
      BY <1>1, <1>5, <1>7, <2>4 DEF Final, FocusOK
    <3>2. "commit" \in Left[r]
      BY <2>4, <3>1 DEF Final
    <3> QED
      BY <1>13, <2>4, <3>2
  <2>5. ASSUME NEW r \in Handles, NEW q \in Handles,
               r # q, mAudioFocus'[r] # "none", mAudioFocus'[r] = mAudioFocus'[q]
        PROVE  /\ "setUp" \in Mine'[r] /\ "setUp" \in Mine'[q]
               /\ "commit" \in Left'[r] \/ "commit" \in Left'[q]
    <3>1. CASE r # s /\ q # s
      BY <1>1, <1>3, <1>7, <2>5, <3>1 DEF FocusOK
    <3>2. CASE r = s
      BY <1>7, <2>3, <2>4, <2>5, <3>2
    <3>3. CASE q = s
      BY <1>7, <2>3, <2>4, <2>5, <3>3
    <3> QED
      BY <3>1, <3>2, <3>3
  <2>6. ASSUME NEW r \in Handles
        PROVE  \/ pgr[r].audioFocus \in {"unset", mAudioFocus'[r]}
               \/ mAudioFocus'[r] = "none" /\ "close" \in Mine'[r]
    <3>1. CASE r = s
      BY <1>14, <3>1
    <3>2. CASE r # s
      BY <1>1, <1>3, <1>7, <3>2 DEF FocusOK
    <3> QED
      BY <3>1, <3>2
  <2>7. ASSUME NEW r \in Handles, NEW q \in Handles, r # q, pgr[r].audioFocus # "unset"
        PROVE  pgr[r].audioFocus # mAudioFocus'[q]
    <3>1. CASE q # s
      BY <1>1, <1>7, <2>7, <3>1 DEF FocusOK
    <3>2. CASE q = s
      <4>1. pgr[r].audioFocus = mAudioFocus[r]
        BY <1>1, <1>13, <2>7, <3>2 DEF FocusOK
      <4> QED
        BY <1>7, <2>4, <2>7, <3>2, <4>1
    <3> QED
      BY <3>1, <3>2
  <2> QED
    BY <1>6, <2>2, <2>5, <2>6, <2>7 DEF FocusOK
<1> QED
  BY <1>3, <1>8, <1>9, <1>10, <1>11, <1>12, <1>15, StillTracked

LEMMA Taken ==
    ASSUME WorkOK, NEW t \in Owners, NEW s \in Handles, NEW op \in Ops, Take(t, op, s)
    PROVE  op \in Left[s]
<1>1. PICK w : w = work[t]
  OBVIOUS
<1>2. w \in Seq(Items) /\ w # <<>> /\ Head(w) = <<op, s>> /\ InOrder(w)
  BY <1>1, Names DEF WorkOK, Take
<1>3. IsIn(<<op, s>>, work[t])
  BY <1>1, <1>2, Rest
<1>4. t = s \/ t = "player"
  BY <1>3, Item DEF WorkOK, Owners
<1> QED
  BY <1>3, <1>4, LeftIs

\* The output of a film is connected in three steps.
LEMMA OneStep ==
    ASSUME Tracked, NEW t \in Threads, NEW s \in Handles, NEW op \in {"note", "set1080p"},
           NEW new \in {"set1080p", "connect"}, Take(t, op, s), Then(t, new, s)
    PROVE  /\ WorkOK' /\ AtWork' = AtWork /\ s \in Films /\ About(s)
           /\ \A r \in Handles :
                 /\ Phase(Left'[r], disp[r], r)
                 /\ \A o \in {"setUp", "commit", "close"} :
                       /\ o \in Left'[r] <=> o \in Left[r]
                       /\ o \in Mine'[r] <=> o \in Mine[r]
<1>1. WorkOK /\ RestTyped /\ \A r \in Handles : DispOK(r)
  BY TrackedFacts
<1>2. op \in Ops /\ new \in Ops
  BY DEF Ops
<1>3. \A r \in Handles : Phase(Left[r], disp[r], r)
  BY <1>1 DEF DispOK
<1>4. CASE t = "media"
  <2>1. work["media"] = << <<op, s>> >> /\ AtWork = {s} /\ s \in Films
    BY <1>1, <1>4, MediaFacts
  <2>2. PICK w : w = << <<new, s>> >>
    OBVIOUS
  <2>3. work' = [work EXCEPT !["media"] = w]
    <3>1. << <<new, s>> >> \o Tail(<< <<op, s>> >>) = << <<new, s>> >>
      BY <1>2, Item
    <3> QED
      BY <1>4, <2>1, <2>2, <3>1 DEF Then
  <2>4. WorkOK' /\ Left' = Left /\ Mine' = Mine /\ work'["media"] = w
    <3>1. \E o \in {"note", "set1080p", "connect"}, r \in Handles : r \in Films /\ w = << <<o, r>> >>
      BY <2>1, <2>2
    <3> QED
      BY <1>1, <2>3, <3>1, MediaGiven
  <2>5. AtWork' = {s}
    BY <2>2, <2>4 DEF AtWork
  <2>6. About(s)
    <3>1. disp[s] # "none" /\ disp[s] \in Displays
      BY <1>1, <2>1 DEF DispOK, RestTyped
    <3> QED
      BY <2>1, <3>1 DEF About, Displays
  <2> QED
    BY <1>3, <2>1, <2>4, <2>5, <2>6
<1>5. CASE t # "media"
  <2>1. t \in Owners
    BY <1>1, <1>5, OwnerOf
  <2>2. op \in Left[s]
    BY <1>1, <1>2, <2>1, Taken
  <2>3. s \in Films
    BY <1>3, <2>2 DEF Phase
  <2>4. Only(op, Left[s]) /\ disp[s] \in {"started", "incomplete"}
    <3>1. op \in {"note", "set1080p", "connect"}
      OBVIOUS
    <3> QED
      BY <1>3, <2>2, <2>3, <3>1 DEF Phase
  <2>5. new # "commit" /\ Class(new) = Class(op)
    BY Ranks
  <2>6. /\ WorkOK' /\ AtWork' = AtWork
        /\ new \in Left'[s] /\ \A o \in Left'[s] : o = new
        /\ \A o \in Mine'[s] : o = new
        /\ \A r \in Handles : r # s => Left'[r] = Left[r] /\ Mine'[r] = Mine[r]
    BY <1>1, <1>2, <2>1, <2>4, <2>5, Continued DEF Only
  <2>7. Phase(Left'[s], disp[s], s)
    <3>1. new \in {"note", "set1080p", "connect"} /\ Only(new, Left'[s])
      BY <2>6 DEF Only
    <3> QED
      BY <2>3, <2>4, <2>6, <3>1, PhaseOnly
  <2>8. \A o \in {"setUp", "commit", "close"} :
           o \notin Left'[s] /\ o \notin Left[s] /\ o \notin Mine'[s] /\ o \notin Mine[s]
    <3>1. Mine[s] \subseteq Left[s]
      BY <1>1, LeftFacts
    <3> QED
      BY <2>4, <2>6, <3>1 DEF Only
  <2>9. About(s)
    BY <2>4 DEF About
  <2> QED
    BY <1>3, <2>3, <2>6, <2>7, <2>8, <2>9
<1> QED
  BY <1>4, <1>5

LEMMA ResolutionKeeps ==
    ASSUME Tracked, NEW t \in Threads, NEW s \in Handles, setOptimalDisplayResolution(t, s)
    PROVE  ScreensInv'
<1>1. /\ LayersTyped /\ RestTyped /\ WorkOK /\ ResolutionOK
      /\ FocusOK /\ LayersOK /\ SoundsOK /\ \A r \in Handles : DispOK(r)
  BY TrackedFacts
<1>2. /\ WorkOK' /\ AtWork' = AtWork /\ s \in Films /\ About(s)
      /\ \A r \in Handles :
            /\ Phase(Left'[r], disp[r], r)
            /\ \A o \in {"setUp", "commit", "close"} :
                  /\ o \in Left'[r] <=> o \in Left[r]
                  /\ o \in Mine'[r] <=> o \in Mine[r]
  BY OneStep DEF setOptimalDisplayResolution
<1>3. UNCHANGED <<mAudioFocus, pending, disp, out, frame, strays, userSound, avQueue, changes>>
  BY DEF setOptimalDisplayResolution, screen, user
<1>4. UNCHANGED <<pgr, mMainScreenPgrHandle, mIsOutputStarted, isClosedCaptionEnabled, mIsVod>>
  BY DEF setOptimalDisplayResolution, avpm, Note1080p, setDisplayResolution1080p
<1>5. LayersTyped' /\ LayersOK' /\ SoundsOK'
  BY <1>1, <1>3, <1>4 DEF LayersOK, LayersTyped, SoundsOK
<1>6. \A r \in Handles : About(r)' <=> About(r)
  BY <1>2, <1>3 DEF About
<1>7. /\ resolution' \in [output : {"user", "1080p"}, active : BOOLEAN]
      /\ slips' \subseteq {"resolution"}
      /\ slips' = {} => ResolutionOK'
  <2>1. resolution \in [output : {"user", "1080p"}, active : BOOLEAN] /\ slips \subseteq {"resolution"}
    BY <1>1 DEF RestTyped
  <2>2. CASE Note1080p
    <3>1. PICK n : n = [resolution EXCEPT !.active = TRUE]
      OBVIOUS
    <3>2. /\ n \in [output : {"user", "1080p"}, active : BOOLEAN] /\ n.active
          /\ resolution' = n /\ slips' = slips
      BY <2>1, <2>2, <3>1 DEF Note1080p
    <3> QED
      BY <1>2, <1>6, <2>1, <3>2 DEF ResolutionOK
  <2>3. CASE UNCHANGED avpm
    <3>1. UNCHANGED <<resolution, slips>>
      BY <2>3 DEF avpm
    <3> QED
      BY <1>1, <1>6, <2>1, <3>1 DEF ResolutionOK
  <2>4. CASE setDisplayResolution1080p
    <3>1. PICK n : n = [resolution EXCEPT !.output = "1080p"]
      OBVIOUS
    <3>2. /\ n \in [output : {"user", "1080p"}, active : BOOLEAN]
          /\ n.active <=> resolution.active
          /\ resolution' = n /\ slips' \subseteq {"resolution"}
          /\ slips' = {} => resolution.active
      BY <2>1, <2>4, <3>1 DEF setDisplayResolution1080p
    <3> QED
      BY <1>2, <1>6, <3>2 DEF ResolutionOK
  <2> QED
    BY <2>2, <2>3, <2>4 DEF setOptimalDisplayResolution
<1>8. RestTyped'
  BY <1>1, <1>3, <1>4, <1>7 DEF RestTyped
<1>9. ASSUME NEW r \in Handles PROVE DispOK(r)'
  BY <1>1, <1>2, <1>3, <1>4 DEF DispOK, Fresh
<1>10. FocusOK'
  BY <1>1, <1>2, <1>3, <1>4, FocusKept
<1> QED
  BY <1>2, <1>5, <1>7, <1>8, <1>9, <1>10 DEF ScreensInv, ScreensOK

\* With a focus or without.
LEMMA ConnectedTyped ==
    ASSUME LayersTyped, NEW h \in Handles, NEW ok \in BOOLEAN, connectOutput(h, ok),
           out' = [out EXCEPT ![h] = ok]
    PROVE  LayersTyped'
<1>1. /\ pgr \in [Handles -> Settings] /\ pgr[h] \in Settings /\ mIsOutputStarted \in Flags
      /\ isClosedCaptionEnabled \in BOOLEAN /\ pgr[h].audioFocus \in {"unset", "main", "pip"}
      /\ pgr[h].cc \in BOOLEAN /\ out \in [Handles -> BOOLEAN]
  BY SettingsOf DEF LayersTyped
<1>2. PICK f \in {"main", "pip"} :
         /\ mMainScreenPgrHandle' = IF f = "main" THEN h ELSE mMainScreenPgrHandle
         /\ \/ mIsOutputStarted[f] /\ ok /\ UNCHANGED <<pgr, mIsOutputStarted>>
            \/ /\ ~mIsOutputStarted[f] /\ ok
               /\ pgr' = Showing(h, f)
               /\ mIsOutputStarted' = [mIsOutputStarted EXCEPT ![f] = TRUE]
            \/ ~mIsOutputStarted[f] /\ ~ok /\ UNCHANGED <<pgr, mIsOutputStarted>>
         /\ UNCHANGED <<isClosedCaptionEnabled, mIsVod, resolution, slips>>
  <2>1. (IF pgr[h].audioFocus = "unset" THEN {"main", "pip"} ELSE {pgr[h].audioFocus})
           \subseteq {"main", "pip"}
    BY <1>1
  <2> QED
    BY <2>1 DEF connectOutput
<1>3. Showing(h, f) \in [Handles -> Settings]
  <2>1. CASE f = "main"
    <3>1. PICK b \in BOOLEAN : b <=> (pgr[h].cc \/ isClosedCaptionEnabled)
      BY <1>1
    <3>2. PICK c : c = [pgr[h] EXCEPT !.shown = TRUE, !.cc = (pgr[h].cc \/ isClosedCaptionEnabled)]
      OBVIOUS
    <3>3. c \in Settings
      BY <1>1, <3>1, <3>2 DEF Settings
    <3>4. Showing(h, f) = [pgr EXCEPT ![h] = c]
      BY <1>1, <2>1, <3>2 DEF Showing, playToVideoLayer
    <3> QED
      BY <1>1, <3>3, <3>4
  <2>2. CASE f = "pip"
    <3>1. PICK c : c = [pgr[h] EXCEPT !.shown = TRUE]
      OBVIOUS
    <3>2. c \in Settings
      BY <1>1, <3>1 DEF Settings
    <3>3. Showing(h, f) = [pgr EXCEPT ![h] = c]
      BY <1>1, <2>2, <3>1 DEF Showing, playPIPVideo
    <3> QED
      BY <1>1, <3>2, <3>3
  <2> QED
    BY <2>1, <2>2
<1>4. pgr' \in [Handles -> Settings]
  BY <1>1, <1>2, <1>3
<1>5. mIsOutputStarted' \in Flags
  <2>1. PICK n : n = [mIsOutputStarted EXCEPT ![f] = TRUE]
    OBVIOUS
  <2>2. n \in Flags
    BY ONLY <1>1, <2>1 DEF Flags
  <2> QED
    BY <1>1, <1>2, <2>1, <2>2
<1>6. out' \in [Handles -> BOOLEAN]
  BY <1>1
<1>7. mMainScreenPgrHandle' \in Handles \cup {NoHandle} /\ isClosedCaptionEnabled' \in BOOLEAN
  BY <1>1, <1>2 DEF LayersTyped
<1> QED
  BY <1>4, <1>5, <1>6, <1>7 DEF LayersTyped

LEMMA ConnectKeeps ==
    ASSUME Tracked, NEW t \in Threads, NEW s \in Handles, ConnectOutput(t, s)
    PROVE  ScreensInv'
<1>1. /\ LayersTyped /\ RestTyped /\ WorkOK /\ ResolutionOK
      /\ FocusOK /\ LayersOK /\ SoundsOK /\ (\A r \in Handles : DispOK(r)) /\ strays = {}
  BY TrackedFacts DEF Tracked
<1>2. PICK ok \in BOOLEAN :
         /\ connectOutput(s, ok)
         /\ out' = [out EXCEPT ![s] = ok]
         /\ disp' = IF disp[s] = "starting" /\ t # "media"
                      THEN [disp EXCEPT ![s] = IF ok THEN "started" ELSE "incomplete"]
                      ELSE disp
  BY DEF ConnectOutput
<1>3. UNCHANGED <<mAudioFocus, pending, frame, userSound, avQueue, changes,
                  isClosedCaptionEnabled, mIsVod, resolution, slips>>
  BY <1>2 DEF ConnectOutput, screen, user, connectOutput
<1>4. LayersTyped'
  BY <1>1, <1>2, ConnectedTyped
<1>5. ASSUME pgr[s].audioFocus # "unset"
      PROVE  /\ LayersOK' /\ FocusSame(pgr, pgr') /\ SoundSame(pgr, pgr') /\ SoundsOK'
             /\ \A r \in Handles : r # s => pgr'[r].shown = pgr[r].shown
  <2>1. /\ LayersOK' /\ FocusSame(pgr, pgr') /\ SoundSame(pgr, pgr')
        /\ \A r \in Handles : r # s => pgr'[r].shown = pgr[r].shown
    BY <1>1, <1>2, <1>5, Connected
  <2>2. SoundsOK'
    BY <1>1, <1>3, <2>1, SoundsKept DEF FocusSame, SoundSame
  <2> QED
    BY <2>1, <2>2
<1>6. CASE t = "media"
  <2>1. work["media"] = << <<"connect", s>> >> /\ AtWork = {s} /\ s \in Films
    BY <1>1, <1>6, MediaFacts DEF ConnectOutput
  <2>2. work' = [work EXCEPT !["media"] = <<>>]
    <3>1. Tail(<< <<"connect", s>> >>) = <<>>
      OBVIOUS
    <3> QED
      BY <1>6, <2>1, <3>1 DEF ConnectOutput, Done
  <2>3. PICK w : w = <<>>
    OBVIOUS
  <2>4. WorkOK' /\ Left' = Left /\ Mine' = Mine /\ work'["media"] = <<>>
    BY <1>1, <2>2, <2>3, MediaGiven
  <2>5. AtWork' = {}
    BY <2>4 DEF AtWork
  <2>6. UNCHANGED disp
    BY <1>2, <1>6
  <2>7. strays' \subseteq {"frame", "focus"} /\ (strays' = {} => disp[s] = "started")
    BY <1>1, <1>6 DEF ConnectOutput, Stray, IsEarlyOrLate
  <2>8. RestTyped'
    BY <1>1, <1>3, <2>6, <2>7 DEF RestTyped
  <2>9. ASSUME disp[s] = "started"
        PROVE  ScreensOK' /\ ResolutionOK'
    <3>1. pgr[s].audioFocus # "unset"
      BY <1>1, <2>9 DEF DispOK, Fresh
    <3>2. /\ LayersOK' /\ FocusSame(pgr, pgr') /\ SoundSame(pgr, pgr') /\ SoundsOK'
          /\ \A r \in Handles : r # s => pgr'[r].shown = pgr[r].shown
      BY <1>5, <3>1
    <3>3. ResolutionOK'
      <4>1. \A r \in Handles : About(r) => About(r)'
        BY <2>1, <2>6, <2>9 DEF About
      <4> QED
        BY <1>1, <1>3, <4>1, ResolutionKept
    <3>4. ASSUME NEW r \in Handles PROVE DispOK(r)'
      <4>1. frame'[r] \/ r \in AtWork' => frame[r]
        BY <1>3, <2>5
      <4>2. disp[r] = "stopped" => r # s
        BY <2>9
      <4> QED
        BY <1>1, <1>3, <2>4, <2>6, <3>2, <4>1, <4>2, DispKept DEF FocusSame
    <3>5. FocusOK'
      BY <1>1, <1>3, <2>4, <3>2, FocusKept DEF FocusSame
    <3> QED
      BY <3>2, <3>3, <3>4, <3>5 DEF ScreensOK
  <2> QED
    BY <1>4, <2>4, <2>7, <2>8, <2>9 DEF ScreensInv
<1>7. CASE t # "media"
  <2>1. t \in Owners /\ "connect" \in Ops
    BY <1>1, <1>7, OwnerOf DEF ConnectOutput, Ops
  <2>2. /\ WorkOK' /\ AtWork' = AtWork
        /\ Left[s] \in SUBSET Ops /\ disp[s] \in Displays /\ Phase(Left[s], disp[s], s)
        /\ Follows(Left[s], "connect", Left'[s]) /\ Mine'[s] = Mine[s] \ {"connect"}
        /\ \A r \in Handles : r # s => Left'[r] = Left[r] /\ Mine'[r] = Mine[r]
    BY <2>1, OneDone DEF ConnectOutput
  <2>3. /\ \A e \in {"started", "incomplete"} : Phase(Left'[s], e, s)
        /\ disp[s] \in {"starting", "started", "incomplete"}
        /\ s \in Films => disp[s] # "starting"
    BY <2>2, PhaseConnect
  <2>4. pgr[s].audioFocus # "unset"
    BY <1>1, <2>3 DEF DispOK, Fresh
  <2>5. /\ LayersOK' /\ FocusSame(pgr, pgr') /\ SoundSame(pgr, pgr') /\ SoundsOK'
        /\ \A r \in Handles : r # s => pgr'[r].shown = pgr[r].shown
    BY <1>5, <2>4
  <2>6. UNCHANGED strays
    BY <1>7 DEF ConnectOutput, Stray
  <2>7. /\ disp' \in [Handles -> Displays] /\ disp'[s] \in {"started", "incomplete"}
        /\ \A r \in Handles : r # s => disp'[r] = disp[r]
    <3>1. disp \in [Handles -> Displays] /\ "started" \in Displays /\ "incomplete" \in Displays
      BY <1>1 DEF RestTyped, Displays
    <3> QED
      BY <1>2, <1>7, <2>3, <3>1
  <2>8. RestTyped'
    BY <1>1, <1>3, <2>6, <2>7 DEF RestTyped
  <2>9. ResolutionOK'
    <3>1. \A r \in Handles : About(r) => About(r)'
      BY <2>2, <2>7 DEF About
    <3> QED
      BY <1>1, <1>3, <3>1, ResolutionKept
  <2>10. DispOK(s)'
    BY <1>1, <1>3, <2>2, <2>3, <2>4, <2>5, <2>7 DEF DispOK, Fresh, FocusSame, Follows
  <2>11. ASSUME NEW r \in Handles, r # s PROVE DispOK(r)'
    BY <1>1, <1>3, <2>2, <2>5, <2>7, <2>11, DispKept DEF FocusSame
  <2>12. FocusOK'
    BY <1>1, <1>3, <2>2, <2>5, FocusKept DEF FocusSame, Follows
  <2> QED
    BY <1>4, <2>2, <2>5, <2>8, <2>9, <2>10, <2>11, <2>12, StillTracked
<1> QED
  BY <1>6, <1>7

------------------------------------------------------------------------------
(* The commit of the presentation parameters *)

\* What the player is given to do, for those that are configured.
Moves(s, x) ==
    \/ disp[s] # "none" /\ (x = <<"stop", s>> \/ x = <<"close", s>>)
    \/ x = <<"commit", s>>
    \/ x = <<"setUp", s>>
    \/ s \in Films /\ x = <<"open", s>>
    \/ s \notin Films /\ x = <<"connect", s>>

LEMMA Moved ==
    ASSUME Tracked, PlayerIsFree, \A s \in Configured : ~Locked(s),
           \A s, t \in Foreground : s # t => NextFocus(s) # NextFocus(t),
           NEW w \in Seq(Items), InOrder(w),
           \A x : IsIn(x, w) <=> \E s \in Configured : Moves(s, x),
           work' = [work EXCEPT !["player"] = w],
           UNCHANGED <<screen, disp, out, frame, strays, avpmVars>>
    PROVE  ScreensInv'
<1>1. /\ LayersTyped /\ RestTyped /\ WorkOK /\ ResolutionOK
      /\ FocusOK /\ LayersOK /\ SoundsOK /\ \A r \in Handles : DispOK(r)
  BY TrackedFacts
<1>2. \A r \in Handles : Mine[r] = {} /\ "commit" \notin Left[r]
  BY <1>1, PlayerFree
<1>3. \A s \in Configured : s \in Handles /\ Left[s] = {}
  BY <1>1, NotLocked DEF Configured, Foreground
<1>4. \A s, x : Moves(s, x) => x[2] = s
  BY DEF Moves
<1>5. /\ WorkOK' /\ AtWork' = AtWork
      /\ \A r \in Handles :
            /\ Left'[r] = Left[r] \cup {o \in Ops : IsIn(<<o, r>>, w)}
            /\ Mine'[r] = {o \in Ops : IsIn(<<o, r>>, w)}
  <2>1. \A x \in Items : IsIn(x, w) => Left[x[2]] = {}
    BY <1>3, <1>4
  <2>2. PICK t \in Owners : t = "player"
    BY Names
  <2>3. t \notin Handles /\ work["player"] = <<>> /\ work' = [work EXCEPT ![t] = w]
    BY <2>2, Names DEF PlayerIsFree
  <2> QED
    BY <1>1, <2>1, <2>2, <2>3, Given
<1>6. ASSUME NEW r \in Handles, r \notin Configured
      PROVE  Left'[r] = Left[r] /\ Mine'[r] = {}
  <2>1. ASSUME NEW o \in Ops, IsIn(<<o, r>>, w) PROVE FALSE
    <3>1. PICK x : x = <<o, r>>
      OBVIOUS
    <3>2. x[2] = r /\ IsIn(x, w)
      BY <2>1, <3>1
    <3> QED
      BY <1>4, <1>6, <3>2
  <2>2. {o \in Ops : IsIn(<<o, r>>, w)} = {}
    BY <2>1
  <2> QED
    BY <1>5, <2>2
<1>7. ASSUME NEW s \in Configured
      PROVE  /\ Left'[s] = Mine'[s]
             /\ \A o : o \in Left'[s] <=> \/ disp[s] # "none" /\ o \in {"stop", "close"}
                                          \/ TRUE /\ o = "commit"
                                          \/ TRUE /\ o = "setUp"
                                          \/ TRUE /\ s \in Films /\ o = "open"
                                          \/ TRUE /\ s \notin Films /\ o = "connect"
  <2>1. \A o : IsIn(<<o, s>>, w) <=> Moves(s, <<o, s>>)
    <3>1. ASSUME NEW o, NEW r, Moves(r, <<o, s>>) PROVE r = s
      <4>1. PICK x : x = <<o, s>>
        OBVIOUS
      <4>2. x[2] = s /\ Moves(r, x)
        BY <3>1, <4>1
      <4> QED
        BY <1>4, <4>2
    <3> QED
      BY <3>1
  <2>2. \A o : Moves(s, <<o, s>>) <=> \/ disp[s] # "none" /\ o \in {"stop", "close"}
                                      \/ o = "commit"
                                      \/ o = "setUp"
                                      \/ s \in Films /\ o = "open"
                                      \/ s \notin Films /\ o = "connect"
    BY DEF Moves
  <2>3. {"stop", "close", "commit", "setUp", "open", "connect"} \subseteq Ops
    BY DEF Ops
  <2>4. Left'[s] = {o \in Ops : IsIn(<<o, s>>, w)} /\ Mine'[s] = {o \in Ops : IsIn(<<o, s>>, w)}
    BY <1>3, <1>5
  <2> QED
    BY <2>1, <2>2, <2>3, <2>4
<1>8. UNCHANGED <<pgr, mMainScreenPgrHandle, mIsOutputStarted, isClosedCaptionEnabled, mIsVod,
                  resolution, slips, userSound, avQueue, changes, mAudioFocus, pending>>
  BY DEF avpmVars, avpm, user, screen
<1>9. LayersTyped' /\ LayersOK' /\ SoundsOK'
  BY <1>1, <1>8, LayersKept, SoundsKept
<1>10. RestTyped'
  BY <1>1, <1>8 DEF RestTyped
<1>11. ResolutionOK'
  BY <1>1, <1>5, <1>8, ResolutionKept DEF About
<1>12. ASSUME NEW s \in Configured PROVE DispOK(s)'
  <2>1. s \in Handles /\ mAudioFocus[s] # "none" /\ pending[s] # "none"
    BY DEF Configured, Foreground
  <2>2. disp[s] \in {"none", "started", "incomplete"}
    BY <1>1, <1>3, IdleDisplay DEF RestTyped
  <2>3. Phase(Left'[s], disp[s], s)
    BY <1>7, <2>2, PhaseGiven
  <2> QED
    BY <1>1, <1>5, <1>8, <2>1, <2>3 DEF DispOK, Fresh
<1>13. ASSUME NEW r \in Handles, r \notin Configured PROVE DispOK(r)'
  BY <1>1, <1>5, <1>6, <1>8, <1>13, DispKept
<1>14. FocusOK'
  <2>1. ASSUME NEW s \in Configured PROVE Final(s)' = pending[s] /\ NextFocus(s) = pending[s]
    BY <1>3, <1>7, <1>8 DEF Final, NextFocus
  <2>2. ASSUME NEW r \in Handles, r \notin Configured
        PROVE  Final(r)' = mAudioFocus[r] /\ NextFocus(r) = mAudioFocus[r]
    BY <1>2, <1>6, <1>8, <2>2 DEF Final, NextFocus
  <2>3. ASSUME NEW r \in Handles, NEW q \in Handles, r # q, Final(r)' # "none"
        PROVE  Final(r)' # Final(q)'
    <3>1. Final(r)' = NextFocus(r) /\ Final(q)' = NextFocus(q)
      BY <2>1, <2>2
    <3>2. r \in Foreground
      BY <2>2, <2>3 DEF Foreground, Configured
    <3>3. CASE q \in Foreground
      BY <2>3, <3>1, <3>2, <3>3
    <3>4. CASE q \notin Foreground
      <4>1. q \notin Configured /\ mAudioFocus[q] = "none"
        BY <3>4 DEF Foreground, Configured
      <4> QED
        BY <2>2, <2>3, <4>1
    <3> QED
      BY <3>3, <3>4
  <2>4. \A r, q \in Handles :
           ~(r # q /\ mAudioFocus[r] # "none" /\ mAudioFocus[r] = mAudioFocus[q])
    BY <1>1, <1>2 DEF FocusOK
  <2>5. \A r \in Handles : pgr[r].audioFocus \in {"unset", mAudioFocus[r]}
    BY <1>1, <1>2 DEF FocusOK
  <2>6. \A r, q \in Handles :
           r # q /\ pgr[r].audioFocus # "unset" => pgr[r].audioFocus # mAudioFocus[q]
    BY <1>1 DEF FocusOK
  <2> QED
    BY <1>8, <2>3, <2>4, <2>5, <2>6 DEF FocusOK
<1> QED
  BY <1>5, <1>9, <1>10, <1>11, <1>12, <1>13, <1>14, StillTracked

LEMMA CommitWorkIs ==
    ASSUME NEW s \in Handles
    PROVE  /\ CommitWork(s) \in Seq(Items) /\ InOrder(CommitWork(s))
           /\ \A x : IsIn(x, CommitWork(s)) <=> x = <<"commit", s>>
<1>1. "commit" \in Ops
  BY DEF Ops
<1> QED
  BY <1>1, OneIsOrdered, InOne DEF CommitWork

\* Displays are closed before sessions are committed, and those before displays
\* are started.
LEMMA Earlier ==
    ASSUME NEW r \in Handles, NEW q \in Handles, NEW x, NEW y
    PROVE  /\ IsIn(x, CloseWork(r)) /\ IsIn(y, CloseWork(q)) /\ r # q => Before(x, y)
           /\ IsIn(x, CloseWork(r)) /\ IsIn(y, CommitWork(q)) => Before(x, y)
           /\ IsIn(x, CloseWork(r)) /\ IsIn(y, StartWork(q)) => Before(x, y)
           /\ IsIn(x, CommitWork(r)) /\ IsIn(y, CommitWork(q)) /\ r # q => Before(x, y)
           /\ IsIn(x, CommitWork(r)) /\ IsIn(y, StartWork(q)) => Before(x, y)
           /\ IsIn(x, StartWork(r)) /\ IsIn(y, StartWork(q)) /\ r # q => Before(x, y)
<1>1. ASSUME NEW a, NEW b, Class(a) <= Class(b), r = q => Rank(a) < Rank(b)
      PROVE  Before(<<a, r>>, <<b, q>>)
  BY <1>1 DEF Before
<1>2. IsIn(x, CloseWork(r)) => \E a \in {"stop", "close"} : x = <<a, r>>
  BY CloseWorkIs
<1>3. IsIn(y, CloseWork(q)) => \E b \in {"stop", "close"} : y = <<b, q>>
  BY CloseWorkIs
<1>4. IsIn(x, CommitWork(r)) => x = <<"commit", r>>
  BY CommitWorkIs
<1>5. IsIn(y, CommitWork(q)) => y = <<"commit", q>>
  BY CommitWorkIs
<1>6. IsIn(x, StartWork(r)) => \E a \in {"open", "setUp", "connect"} : x = <<a, r>>
  BY StartWorkIs
<1>7. IsIn(y, StartWork(q)) => \E b \in {"open", "setUp", "connect"} : y = <<b, q>>
  BY StartWorkIs
<1>8. r # q => /\ \A a, b \in {"stop", "close"} : Before(<<a, r>>, <<b, q>>)
               /\ Before(<<"commit", r>>, <<"commit", q>>)
               /\ \A a, b \in {"open", "setUp", "connect"} : Before(<<a, r>>, <<b, q>>)
  BY <1>1, Ranks
<1>9. /\ \A a \in {"stop", "close"} : Before(<<a, r>>, <<"commit", q>>)
      /\ \A a \in {"stop", "close"}, b \in {"open", "setUp", "connect"} :
            Before(<<a, r>>, <<b, q>>)
      /\ \A b \in {"open", "setUp", "connect"} : Before(<<"commit", r>>, <<b, q>>)
  BY <1>1, Ranks
<1> QED
  BY <1>2, <1>3, <1>4, <1>5, <1>6, <1>7, <1>8, <1>9

LEMMA MovesOne ==
    ASSUME NEW s \in Handles, NEW w, w = CloseWork(s) \o CommitWork(s) \o StartWork(s)
    PROVE  /\ w \in Seq(Items) /\ InOrder(w)
           /\ \A x : IsIn(x, w) <=> Moves(s, x)
<1>1. PICK u : u = CloseWork(s) \o CommitWork(s)
  OBVIOUS
<1>2. /\ u \in Seq(Items) /\ InOrder(u)
      /\ \A x : IsIn(x, u) <=> IsIn(x, CloseWork(s)) \/ IsIn(x, CommitWork(s))
  BY <1>1, Then2, CloseWorkIs, CommitWorkIs, Earlier
<1>3. \A x, y : IsIn(x, u) /\ IsIn(y, StartWork(s)) => Before(x, y)
  BY <1>2, Earlier
<1>4. /\ w \in Seq(Items) /\ InOrder(w)
      /\ \A x : IsIn(x, w) <=> IsIn(x, u) \/ IsIn(x, StartWork(s))
  BY <1>1, <1>2, <1>3, Then2, StartWorkIs
<1> QED
  BY <1>2, <1>4, CloseWorkIs, CommitWorkIs, StartWorkIs DEF Moves

LEMMA MovesTwo ==
    ASSUME NEW a \in Handles, NEW b \in Handles, a # b, NEW w, w = Swap(a, b)
    PROVE  /\ w \in Seq(Items) /\ InOrder(w)
           /\ \A x : IsIn(x, w) <=> Moves(a, x) \/ Moves(b, x)
<1>1. PICK u : u = CloseWork(a) \o CloseWork(b)
  OBVIOUS
<1>2. PICK v : v = u \o CommitWork(b)
  OBVIOUS
<1>3. PICK p : p = v \o CommitWork(a)
  OBVIOUS
<1>4. PICK q : q = p \o StartWork(b)
  OBVIOUS
<1>5. w = q \o StartWork(a)
  BY <1>1, <1>2, <1>3, <1>4 DEF Swap
<1>6. /\ u \in Seq(Items) /\ InOrder(u)
      /\ \A x : IsIn(x, u) <=> IsIn(x, CloseWork(a)) \/ IsIn(x, CloseWork(b))
  BY <1>1, Then2, CloseWorkIs, Earlier
<1>7. \A x, y : IsIn(x, u) /\ IsIn(y, CommitWork(b)) => Before(x, y)
  BY <1>6, Earlier
<1>8. /\ v \in Seq(Items) /\ InOrder(v)
      /\ \A x : IsIn(x, v) <=> IsIn(x, u) \/ IsIn(x, CommitWork(b))
  BY <1>2, <1>6, <1>7, Then2, CommitWorkIs
<1>9. \A x, y : IsIn(x, v) /\ IsIn(y, CommitWork(a)) => Before(x, y)
  BY <1>6, <1>8, Earlier
<1>10. /\ p \in Seq(Items) /\ InOrder(p)
       /\ \A x : IsIn(x, p) <=> IsIn(x, v) \/ IsIn(x, CommitWork(a))
  BY <1>3, <1>8, <1>9, Then2, CommitWorkIs
<1>11. \A x, y : IsIn(x, p) /\ IsIn(y, StartWork(b)) => Before(x, y)
  BY <1>6, <1>8, <1>10, Earlier
<1>12. /\ q \in Seq(Items) /\ InOrder(q)
       /\ \A x : IsIn(x, q) <=> IsIn(x, p) \/ IsIn(x, StartWork(b))
  BY <1>4, <1>10, <1>11, Then2, StartWorkIs
<1>13. \A x, y : IsIn(x, q) /\ IsIn(y, StartWork(a)) => Before(x, y)
  BY <1>6, <1>8, <1>10, <1>12, Earlier
<1>14. /\ w \in Seq(Items) /\ InOrder(w)
       /\ \A x : IsIn(x, w) <=> IsIn(x, q) \/ IsIn(x, StartWork(a))
  BY <1>5, <1>12, <1>13, Then2, StartWorkIs
<1>15. \A x : IsIn(x, w) <=> \/ IsIn(x, CloseWork(a)) \/ IsIn(x, CommitWork(a))
                             \/ IsIn(x, StartWork(a))
                             \/ IsIn(x, CloseWork(b)) \/ IsIn(x, CommitWork(b))
                             \/ IsIn(x, StartWork(b))
  BY <1>6, <1>8, <1>10, <1>12, <1>14
<1>16. ASSUME NEW s \in Handles, NEW x
       PROVE  IsIn(x, CloseWork(s)) \/ IsIn(x, CommitWork(s)) \/ IsIn(x, StartWork(s))
                 <=> Moves(s, x)
  BY CloseWorkIs, CommitWorkIs, StartWorkIs DEF Moves
<1> QED
  BY <1>14, <1>15, <1>16

\* There are two screens.
LEMMA OneOrTwo ==
    ASSUME RestTyped, Configured # {},
           \A s, t \in Foreground : s # t => NextFocus(s) # NextFocus(t)
    PROVE  \/ \E s \in Configured : Configured = {s} /\ Cardinality(Configured) = 1
           \/ \E a, b \in Configured : /\ a # b /\ Configured = {a, b}
                                       /\ Cardinality(Configured) = 2
                                       /\ pending[a] = "pip" /\ pending[b] = "main"
<1>1. ASSUME NEW s \in Configured, NEW t \in Configured, s # t
      PROVE  pending[s] # pending[t]
  BY <1>1 DEF Configured, NextFocus
<1>2. \A s \in Configured : pending[s] \in {"main", "pip"}
  BY DEF Configured, Foreground, RestTyped
<1>3. PICK s : s \in Configured
  OBVIOUS
<1>4. IsFiniteSet({s}) /\ Cardinality({s}) = 1
  BY FS_Singleton
<1>5. CASE Configured = {s}
  BY <1>3, <1>4, <1>5
<1>6. CASE Configured # {s}
  <2>1. PICK t \in Configured : t # s
    BY <1>3, <1>6
  <2>2. Configured = {s, t}
    BY <1>1, <1>2, <1>3, <2>1
  <2>3. Cardinality({s, t}) = 2
    <3>1. {s} \cup {t} = {s, t} /\ t \notin {s}
      BY <2>1
    <3>2. Cardinality({s} \cup {t}) = 1 + 1
      BY <1>4, <3>1, FS_AddElement
    <3> QED
      BY <3>1, <3>2
  <2>4. CASE pending[s] = "pip"
    <3>1. pending[t] = "main"
      BY <1>1, <1>2, <1>3, <2>1, <2>4
    <3> QED
      BY <1>3, <2>1, <2>2, <2>3, <2>4, <3>1
  <2>5. CASE pending[s] # "pip"
    <3>1. pending[s] = "main" /\ pending[t] = "pip" /\ Configured = {t, s}
      BY <1>1, <1>2, <1>3, <2>1, <2>2, <2>5
    <3> QED
      BY <1>3, <2>1, <2>2, <2>3, <3>1
  <2> QED
    BY <2>4, <2>5
<1> QED
  BY <1>5, <1>6

LEMMA CommitKeeps ==
    ASSUME Tracked, CommitPresentationParams
    PROVE  ScreensInv'
<1>1. RestTyped
  BY TrackedFacts
<1>2. /\ PlayerIsFree /\ Configured # {} /\ \A s \in Configured : ~Locked(s)
      /\ \A s, t \in Foreground : s # t => NextFocus(s) # NextFocus(t)
      /\ UNCHANGED <<screen, disp, out, frame, strays, avpmVars>>
  BY DEF CommitPresentationParams
<1>3. Configured \subseteq Handles
  BY DEF Configured, Foreground
<1>4. ASSUME NEW s \in Configured, Configured = {s}, Cardinality(Configured) = 1
      PROVE  ScreensInv'
  <2>1. PICK w : w = CloseWork(s) \o CommitWork(s) \o StartWork(s)
    OBVIOUS
  <2>2. (CHOOSE r \in Configured : TRUE) = s
    BY <1>4
  <2>3. work' = [work EXCEPT !["player"] = w]
    <3>1. PICK c : c = CHOOSE r \in Configured : TRUE
      OBVIOUS
    <3>2. PICK m : /\ work' = [work EXCEPT !["player"] = m]
                   /\ Cardinality(Configured) # 2 => m = CloseWork(c) \o CommitWork(c) \o StartWork(c)
      BY <3>1 DEF CommitPresentationParams
    <3>3. c = s
      BY <2>2, <3>1
    <3>4. m = w
      BY <1>4, <2>1, <3>2, <3>3
    <3> QED
      BY <3>2, <3>4
  <2>4. /\ w \in Seq(Items) /\ InOrder(w)
        /\ \A x : IsIn(x, w) <=> Moves(s, x)
    BY <1>3, <1>4, <2>1, MovesOne
  <2>5. \A x : IsIn(x, w) <=> \E r \in Configured : Moves(r, x)
    BY <1>4, <2>4
  <2> QED
    BY <1>2, <2>3, <2>4, <2>5, Moved
<1>5. ASSUME NEW a \in Configured, NEW b \in Configured, a # b, Configured = {a, b},
             Cardinality(Configured) = 2, pending[a] = "pip", pending[b] = "main"
      PROVE  ScreensInv'
  <2>1. PICK w : w = Swap(a, b)
    OBVIOUS
  <2>2. /\ (CHOOSE r \in Configured : pending[r] = "pip") = a
        /\ (CHOOSE r \in Configured : pending[r] = "main") = b
    BY <1>5
  <2>3. work' = [work EXCEPT !["player"] = w]
    BY <1>5, <2>1, <2>2 DEF CommitPresentationParams
  <2>4. /\ w \in Seq(Items) /\ InOrder(w)
        /\ \A x : IsIn(x, w) <=> Moves(a, x) \/ Moves(b, x)
    BY <1>3, <1>5, <2>1, MovesTwo
  <2>5. \A x : IsIn(x, w) <=> \E r \in Configured : Moves(r, x)
    BY <1>5, <2>4
  <2> QED
    BY <1>2, <2>3, <2>4, <2>5, Moved
<1> QED
  BY <1>1, <1>2, <1>4, <1>5, OneOrTwo

------------------------------------------------------------------------------
(* All behaviours *)

LEMMA ScreensInit ==
    ASSUME PresentationInit
    PROVE  ScreensInv
<1>1. /\ pgr = [h \in Handles |-> NewSettings] /\ mMainScreenPgrHandle = NoHandle
      /\ mIsOutputStarted = [main |-> FALSE, pip |-> FALSE] /\ isClosedCaptionEnabled = FALSE
      /\ mIsVod = FALSE /\ resolution = [output |-> "user", active |-> FALSE]
      /\ userSound = (CHOOSE sound \in Sounds : TRUE) /\ avQueue = <<>>
      /\ slips = {} /\ changes = 0
  BY DEF PresentationInit, AvpmInit
<1>2. \A h \in Handles : pgr[h] = NewSettings
  BY <1>1
<1>3. /\ \A s \in Handles : mAudioFocus[s] = "none" /\ pending[s] = "none" /\ disp[s] = "none"
                           /\ out[s] = FALSE /\ frame[s] = FALSE
      /\ \A t \in Threads : work[t] = <<>>
      /\ strays = {}
  BY DEF PresentationInit
<1>4. LayersTyped
  <2>1. pgr \in [Handles -> Settings]
    BY <1>1, NewSettingsAre
  <2>2. out \in [Handles -> BOOLEAN]
    BY DEF PresentationInit
  <2> QED
    BY <1>1, <2>1, <2>2 DEF LayersTyped, Flags
<1>5. RestTyped
  <2>1. userSound \in Sounds
    BY <1>1, AvpmAssumption
  <2>2. /\ mAudioFocus \in [Handles -> {"none", "main", "pip"}]
        /\ pending \in [Handles -> {"none", "main", "pip"}]
        /\ disp \in [Handles -> Displays]
    BY DEF PresentationInit, Displays
  <2>4. frame \in [Handles -> BOOLEAN]
    BY DEF PresentationInit
  <2>3. 0 \in 0..MaxChanges
    BY AvpmAssumption
  <2>5. resolution \in [output : {"user", "1080p"}, active : BOOLEAN]
    BY <1>1
  <2>6. avQueue \in Seq(Sounds)
    BY <1>1
  <2> QED
    BY <1>1, <1>3, <2>1, <2>2, <2>3, <2>4, <2>5, <2>6 DEF RestTyped
<1>6. WorkOK
  <2>1. work \in [Threads -> Seq(Items)]
    <3>1. <<>> \in Seq(Items)
      OBVIOUS
    <3> QED
      BY <3>1 DEF PresentationInit
  <2>2. \A t \in Threads : \A x : ~IsIn(x, work[t])
    BY <1>3, InNone
  <2>3. \A t \in Owners : InOrder(work[t])
    BY <1>3, Names DEF InOrder
  <2> QED
    BY <1>3, <2>1, <2>2, <2>3, Names DEF WorkOK
<1>7. \A s \in Handles : Left[s] = {} /\ Mine[s] = {} /\ s \notin AtWork
  <2>1. \A t \in Threads : \A x : ~IsIn(x, work[t])
    BY <1>3, InNone
  <2>2. work["media"] = <<>>
    BY <1>3, Names
  <2> QED
    BY <1>6, <2>1, <2>2, LeftIs, MediaFacts, Names
<1>8. ASSUME NEW s \in Handles PROVE DispOK(s)
  <2>1. Phase({}, "none", s)
    BY DEF Phase
  <2>2. pgr[s].audioFocus = "unset" /\ ~pgr[s].shown
    BY <1>2, NewSettingsAre
  <2> QED
    BY <1>3, <1>7, <2>1, <2>2 DEF DispOK, Fresh
<1>9. FocusOK
  BY <1>2, <1>3, <1>7, NewSettingsAre DEF FocusOK, Final
<1>10. LayersOK
  BY <1>1, <1>2, <1>3, NewSettingsAre, AvpmAssumption DEF LayersOK
<1>11. SoundsOK
  BY <1>1, <1>2, NewSettingsAre DEF SoundsOK
<1>12. ResolutionOK
  BY <1>1 DEF ResolutionOK
<1> QED
  BY <1>4, <1>5, <1>6, <1>8, <1>9, <1>10, <1>11, <1>12 DEF ScreensInv, ScreensOK

LEMMA ScreensNext ==
    ASSUME ScreensInv, PresentationNext
    PROVE  ScreensInv'
<1>1. Tracked
  BY DEF Tracked, PresentationNext
<1>2. ASSUME NEW s \in Handles, Client(s) PROVE ScreensInv'
  <2>1. ASSUME NEW f \in {"main", "pip"},
               Load(s, f) \/ ConfigurePresentationParams(s, f) \/ MoveFocus(s, f)
        PROVE  ScreensInv'
    BY <1>1, <2>1, LoadKeeps, ConfigureKeeps, MoveFocusKeeps
  <2> QED
    BY <1>1, <1>2, <2>1, StartDisplayKeeps, StopAndEjectKeeps, CloseDisplayKeeps,
       ServiceAuthorizedKeeps, ServiceDeAuthorizedKeeps, FirstFrameKeeps, CommitSessionKeeps
       DEF Client
<1>3. ASSUME NEW s \in Handles, NEW t \in Threads, Perform(t, s) PROVE ScreensInv'
  BY <1>1, <1>3, StopKeeps, CloseKeeps, OpenKeeps, SetUpKeeps, ResolutionKeeps, ConnectKeeps
     DEF Perform
<1> QED
  BY <1>1, <1>2, <1>3, CommitKeeps, UserKeeps DEF PresentationNext

LEMMA ScreensStutter ==
    ASSUME ScreensInv, UNCHANGED screenVars
    PROVE  ScreensInv'
<1>1. UNCHANGED <<pgr, mMainScreenPgrHandle, mIsOutputStarted, isClosedCaptionEnabled, mIsVod,
                  resolution, slips, userSound, avQueue, changes,
                  mAudioFocus, pending, disp, out, frame, work, strays>>
  BY DEF screenVars, presentation, screen, avpmVars, avpm, user
<1>2. WorkOK' /\ Left' = Left /\ Mine' = Mine /\ AtWork' = AtWork
  BY <1>1, WorkUnchanged DEF ScreensInv
<1>3. LayersTyped' /\ RestTyped'
  BY <1>1 DEF ScreensInv, LayersTyped, RestTyped
<1>4. strays = {} => ScreensOK'
  <2>1. ASSUME NEW s \in Handles, DispOK(s) PROVE DispOK(s)'
    BY <1>1, <1>2, <2>1 DEF DispOK, Fresh
  <2>2. FocusOK => FocusOK'
    BY <1>1, <1>2 DEF FocusOK, Final
  <2>3. LayersOK => LayersOK'
    BY <1>1 DEF LayersOK
  <2>4. SoundsOK => SoundsOK'
    BY <1>1 DEF SoundsOK
  <2> QED
    BY <2>1, <2>2, <2>3, <2>4 DEF ScreensInv, ScreensOK
<1>5. strays = {} /\ slips = {} => ResolutionOK'
  BY <1>1, <1>2 DEF ScreensInv, ResolutionOK, About
<1> QED
  BY <1>1, <1>2, <1>3, <1>4, <1>5 DEF ScreensInv

LEMMA AudioNextScreens ==
    ASSUME ScreensInv, [AudioNext]_<<part, vars, screenVars>>
    PROVE  ScreensInv'
<1>1. CASE PresentationNext
  BY <1>1, ScreensNext
<1>2. CASE UNCHANGED screenVars
  BY <1>2, ScreensStutter
<1> QED
  BY <1>1, <1>2 DEF AudioNext

\* Who has which layer, what is left to do for it by whom, and what Avpm knows of
\* it, as long as no layer was lost track of (IMediaPlayer.cpp:1489, avpm.cpp).
THEOREM ScreensInvariant == AudioSpec => []ScreensInv
<1>1. AudioSpec => AudioInit /\ [][AudioNext]_<<part, vars, screenVars>>
  BY PTL DEF AudioSpec
<1>2. AudioInit => ScreensInv
  BY ScreensInit DEF AudioInit
<1>3. ScreensInv /\ [AudioNext]_<<part, vars, screenVars>> => ScreensInv'
  BY AudioNextScreens
<1> QED
  BY <1>1, <1>2, <1>3, PTL

\* What a controller was told is connected is on its layer, whatever is swapped,
\* authorized, stopped or lost meanwhile and by whichever thread, and the captions
\* on the main layer are those that were asked for (avpm.cpp:1079).
THEOREM ConnectedStaysShown == AudioSpec => []ConnectedIsShown
<1>1. ASSUME ScreensInv PROVE ConnectedIsShown
  <2>1. SUFFICES ASSUME strays = {}, NEW s \in Handles, out[s]
                 PROVE  /\ pgr[s].shown
                        /\ pgr[s].audioFocus = "main" => pgr[s].cc = isClosedCaptionEnabled
    BY DEF ConnectedIsShown
  <2>2. LayersOK /\ LayersTyped
    BY <1>1, <2>1 DEF ScreensInv, ScreensOK
  <2>3. pgr[s].cc \in BOOLEAN /\ isClosedCaptionEnabled \in BOOLEAN
    BY <2>2, SettingsOf DEF LayersTyped
  <2>4. /\ pgr[s].shown
        /\ pgr[s].audioFocus = "main" => (pgr[s].cc <=> isClosedCaptionEnabled)
    BY <2>1, <2>2 DEF LayersOK
  <2> QED
    BY <2>3, <2>4
<1> QED
  BY <1>1, ScreensInvariant, PTL

\* The main screen sounds as the user wants, once the event thread has caught up,
\* and the resolution of a film does not outlive the last display
\* (avpm.cpp:1079, avpm_VOD1080p.cpp).
THEOREM OutputFollows == AudioSpec => []OutputFollowsTheUser
<1>1. ASSUME ScreensInv PROVE OutputFollowsTheUser
  <2>1. ASSUME NEW s \in Handles, out[s], pgr[s].audioFocus = "main", strays = {}, avQueue = <<>>
        PROVE  mMainScreenPgrHandle = s /\ (pgr[s].sound = userSound \/ pgr[s].missed)
    <3>1. LayersOK /\ SoundsOK
      BY <1>1, <2>1 DEF ScreensInv, ScreensOK
    <3> QED
      BY <2>1, <3>1 DEF LayersOK, SoundsOK
  <2>2. ASSUME \A s \in Handles : disp[s] = "none", strays = {}, slips = {}
        PROVE  resolution = [output |-> "user", active |-> FALSE]
    <3>1. ResolutionOK /\ resolution \in [output : {"user", "1080p"}, active : BOOLEAN]
      BY <1>1, <2>2 DEF ScreensInv, RestTyped
    <3>2. \A s \in Handles : ~About(s)
      BY <2>2 DEF About
    <3>3. ~resolution.active /\ resolution.output = "user"
      BY <3>1, <3>2 DEF ResolutionOK
    <3> QED
      BY <3>1, <3>3
  <2> QED
    BY <2>1, <2>2 DEF OutputFollowsTheUser
<1> QED
  BY <1>1, ScreensInvariant, PTL

\* The types of both parts.
THEOREM AudioTypesCorrect == ASSUME ~StopsAnytime PROVE AudioSpec => []AudioTypeOK
<1>1. AudioSpec => AudioInit /\ [][AudioNext]_<<part, vars, screenVars>>
  BY PTL DEF AudioSpec
<1>2. AudioInit => IInv
  BY InitIInv DEF AudioInit
<1>3. IInv /\ [AudioNext]_<<part, vars, screenVars>> => IInv'
  <2>1. SUFFICES ASSUME IInv, [AudioNext]_<<part, vars, screenVars>> PROVE IInv'
    OBVIOUS
  <2>2. [Next]_vars
    BY <2>1 DEF AudioNext
  <2> QED
    BY <2>1, <2>2, NextIInv
<1>4. ASSUME IInv, ScreensInv PROVE AudioTypeOK
  <2>1. LayersTyped /\ RestTyped /\ TypeOK
    BY <1>4 DEF IInv, ScreensInv
  <2>2. AvpmTypeOK
    BY <2>1 DEF LayersTyped, RestTyped, AvpmTypeOK, Settings, Flags
  <2>3. PresentationTypeOK
    BY <2>1, <2>2 DEF LayersTyped, RestTyped, PresentationTypeOK, Displays
  <2> QED
    BY <2>1, <2>3 DEF AudioTypeOK
<1> QED
  BY <1>1, <1>2, <1>3, <1>4, ScreensInvariant, PTL
==============================================================================
