--------------------------------- MODULE Speaker ---------------------------------
(***************************************************************************)
(* Speaker (src/src/Speaker.cpp): what it adds to Buzzer.  loop() calls    *)
(* updateWav(), which plays a requested WAV to its end and hands the pin   *)
(* from the tone channel to the DAC and back; another task may request the *)
(* next WAV at any moment, in three stores that no lock keeps together.    *)
(* A file is what its bytes are worth here: so many of header, so many of  *)
(* sound, or no WAV file at all.                                           *)
(***************************************************************************)
EXTENDS Integers

CONSTANTS
  Files,           \* files the program plays
  Length,          \* the true length of each
  IsWav,           \* whether playWav() finds its chunks in order
  Header,          \* the length of what precedes the samples
  Percents,        \* volumes the program sets, _initialVolume among them
  InitialVolume,
  None             \* nullptr

SpeakerAssumption ==
  /\ Header \in Nat \ {0}
  /\ Length \in [Files -> Nat \ {0}] /\ IsWav \in [Files -> BOOLEAN]
  /\ InitialVolume \in Percents /\ None \notin Files

VARIABLES
  begun, volumeInitialized,          \* _begun, _volumeInitialized
  audio, length, playRequested,      \* _audio, _length, _playRequested
  mode,        \* what drives the pin: "none", "tone" or "wav"
  amp, volume, \* the shutdown pin, and the level in the volume chip
  at,          \* loop(): "idle", "clear" and "read" in updateWav(), "parse" and
               \* "play" in playWav()
  file, size,  \* the parameters of playWav(), None and 0 before they are read
  count,       \* count of playWav()
  asking,      \* the other task: what it is about to request, and what it did
  wanted,      \* history: amp and volume as last set by the program
  heard        \* history: what was heard to its end since the last request, and
               \* with what length

settings == <<amp, volume, wanted, begun, volumeInitialized>>
request  == <<audio, length, playRequested, asking>>
playing  == <<mode, at, file, size, count, heard>>
vars     == <<settings, request, playing>>

Init ==
  /\ begun = FALSE /\ volumeInitialized = FALSE
  /\ audio = None /\ length = 0 /\ playRequested = FALSE
  /\ mode = "none" /\ amp = FALSE /\ volume = None
  /\ at = "idle" /\ file = None /\ size = 0 /\ count = 0
  /\ asking = <<None, "flag">>
  /\ wanted = <<FALSE, None>>
  /\ heard = None

-----------------------------------------------------------------------------
\* Mutant of Begins: the amplifier is enabled each time.
BeginsAgain ==
  /\ begun' = TRUE /\ amp' = TRUE
  /\ mode' = IF begun THEN mode ELSE "tone"

\* begin(): the tone on the pin, the amplifier on.
Begins ==
  /\ begun' = TRUE
  /\ amp' = (amp \/ ~begun)
  /\ mode' = IF begun THEN mode ELSE "tone"

\* begin(), called by the program.
Begin ==
  /\ at = "idle"
  /\ Begins
  /\ wanted' = IF begun THEN wanted ELSE <<TRUE, wanted[2]>>
  /\ UNCHANGED <<volumeInitialized, volume, request, at, file, size, count, heard>>

\* begin() and initVolume(), with which updateWav() and update() start.
Prepares ==
  /\ Begins
  /\ volumeInitialized' = TRUE
  /\ volume' = IF volumeInitialized THEN volume ELSE InitialVolume
  /\ wanted' = <<IF begun THEN wanted[1] ELSE TRUE,
                 IF volumeInitialized THEN wanted[2] ELSE InitialVolume>>

\* update() has nothing else to do with WAV files; see Buzzer.
Update ==
  /\ at = "idle"
  /\ Prepares
  /\ UNCHANGED <<request, at, file, size, count, heard>>

\* updateWav(), up to its look at the flag.
UpdateWav ==
  /\ at = "idle"
  /\ Prepares
  /\ at' = IF playRequested THEN "clear" ELSE "idle"
  /\ UNCHANGED <<request, file, size, count, heard>>

\* The rest of takeRequest().
ClearRequest ==
  /\ at = "clear"
  /\ playRequested' = FALSE
  /\ at' = "read" /\ file' = None /\ size' = 0
  /\ UNCHANGED <<settings, audio, length, asking, mode, count, heard>>

\* The two arguments of playWav() are read one after the other, the compiler
\* chooses which first.
ReadAudio ==
  /\ at = "read" /\ file = None
  /\ file' = audio
  /\ UNCHANGED <<settings, request, mode, at, size, count, heard>>

ReadLength ==
  /\ at = "read" /\ size = 0
  /\ size' = length
  /\ UNCHANGED <<settings, request, mode, at, file, count, heard>>

\* The ways out of playWav(), but for the first.
Leave(done) ==
  /\ mode' = "tone"
  /\ at' = "idle" /\ heard' = IF done THEN <<file, size>> ELSE heard

\* playWav() takes the pin before it looks at the file.
StartWav ==
  /\ at = "read" /\ file # None /\ size # 0
  /\ mode' = "wav" /\ at' = "parse"
  /\ UNCHANGED <<settings, request, file, size, count, heard>>

\* The file does not start as a WAV file does.
RejectWav ==
  /\ at = "parse" /\ ~IsWav[file]
  /\ Leave(FALSE)
  /\ UNCHANGED <<settings, request, file, size, count>>

\* The walk from chunk to chunk leaves the length it was given: the eight bytes of
\* a data chunk do not lie within it.
MissData ==
  /\ at = "parse" /\ IsWav[file] /\ Header > size
  /\ Leave(FALSE)
  /\ UNCHANGED <<settings, request, file, size, count>>

\* Mutant of FindData: the request is taken back as the playing starts.
FindDataClears ==
  /\ at = "parse" /\ IsWav[file] /\ Header <= size
  /\ at' = "play" /\ count' = Header
  /\ playRequested' = FALSE
  /\ UNCHANGED <<settings, audio, length, asking, mode, heard, file, size>>

FindData ==
  /\ at = "parse" /\ IsWav[file] /\ Header <= size
  /\ at' = "play" /\ count' = Header
  /\ UNCHANGED <<settings, request, mode, heard, file, size>>

\* One sample: a new request ends the playing after it.
Sample ==
  /\ at = "play" /\ count < size
  /\ count' = count + 1
  /\ IF playRequested THEN Leave(FALSE) ELSE UNCHANGED <<mode, at, heard>>
  /\ UNCHANGED <<settings, request, file, size>>

EndWav ==
  /\ at = "play" /\ count >= size
  /\ Leave(TRUE)
  /\ UNCHANGED <<settings, request, file, size, count>>

-----------------------------------------------------------------------------
\* The other task: requestWav(), one store at a time.
WriteAudio ==
  /\ asking[2] = "flag"
  /\ \E f \in Files : audio' = f /\ asking' = <<f, "audio">>
  /\ UNCHANGED <<settings, playing, length, playRequested>>

WriteLength ==
  /\ asking[2] = "audio"
  /\ length' = Length[asking[1]] /\ asking' = [asking EXCEPT ![2] = "length"]
  /\ UNCHANGED <<settings, playing, audio, playRequested>>

SetFlag ==
  /\ asking[2] = "length"
  /\ playRequested' = TRUE
  /\ asking' = [asking EXCEPT ![2] = "flag"]
  /\ heard' = None
  /\ UNCHANGED <<settings, audio, length, mode, at, file, size, count>>

\* The program sets the amplifier and the volume between the updates.  The chip
\* is reached once begin() has started the bus.
SwitchAmp ==
  /\ at = "idle" /\ begun
  /\ amp' \in BOOLEAN /\ wanted' = <<amp', wanted[2]>>
  /\ UNCHANGED <<request, playing, volume, begun, volumeInitialized>>

\* setVolume().
SetVolume ==
  /\ at = "idle" /\ begun
  /\ volume' \in Percents
  /\ wanted' = <<wanted[1], volume'>>
  /\ UNCHANGED <<request, playing, amp, begun, volumeInitialized>>

Player    == UpdateWav \/ ClearRequest \/ ReadAudio \/ ReadLength \/ StartWav
             \/ RejectWav \/ MissData \/ FindData \/ Sample \/ EndWav
Requester == WriteAudio \/ WriteLength \/ SetFlag
Next == Player \/ Requester \/ Begin \/ Update \/ SwitchAmp \/ SetVolume

-----------------------------------------------------------------------------
\* The type of the speaker's state.
TypeOK ==
  /\ begun \in BOOLEAN /\ volumeInitialized \in BOOLEAN /\ amp \in BOOLEAN
  /\ audio \in Files \cup {None} /\ playRequested \in BOOLEAN
  /\ length \in {0} \cup {Length[f] : f \in Files}
  /\ mode \in {"none", "tone", "wav"} 
  /\ at \in {"idle", "clear", "read", "parse", "play"}
  /\ file \in Files \cup {None} /\ size \in Nat /\ count \in Nat
  /\ volume \in Percents \cup {None}

\* A file is played with the length of another only while the request that will
\* end it is on its way: once it is made, the next sample is the last.
TornOnlyDuringRequest ==
  (at = "play" /\ size # Length[file]) => asking[2] # "flag" \/ playRequested

\* Whatever ends a WAV, a wrong header too, the tone has the pin again before
\* loop() goes on.
PinGoesBack == (at = "idle" /\ begun) => mode = "tone"

\* Neither the amplifier nor the volume the program set is undone by a later begin()
\* or update, but for a volume it set before the first update, which sets its own.
SettingsKept == wanted = <<amp, volume>>

\* A requester that comes to rest has its last file heard to its end, after it asked
\* for it and with its own length, if it is a WAV file.
LastRequestIsPlayed ==
  \A f \in Files : IsWav[f] =>
    (<>[](asking = <<f, "flag">>) => <>[](heard = <<f, Length[f]>>))
=============================================================================
