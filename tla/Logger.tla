------------------------------- MODULE Logger -------------------------------
(***************************************************************************)
(* logrus: goroutines that log through one Logger (entry.go, logger.go and *)
(* the functions of exported.go), its hooks (hooks.go), formatters and     *)
(* mutex, while SetLevel and SetFormatter change the logger.  The fields   *)
(* are ones that encoding/json can marshal.                                *)
(***************************************************************************)
EXTENDS Integers, Sequences

CONSTANTS
  Goroutines,  \* the goroutines that log
  Calls,       \* Calls[g]: the levels at which g logs, in order
  Levels,      \* values that SetLevel is called with
  MaxSets,     \* bound on the calls of SetLevel and SetFormatter
  UserFields   \* keys of the fields of the entries

ASSUME LoggerAssumption ==
  Calls \in [Goroutines -> Seq(0 .. 5)] /\ Levels \subseteq 0 .. 5

VARIABLES
  level,      \* Logger.Level
  formatter,  \* Logger.Formatter, "text" or "json"
  sets,       \* number of calls of SetLevel and SetFormatter
  mu,         \* owner of Logger.mu, or {}
  pc,         \* pc[g]: where g is in its call
  n,          \* n[g]: number of the call that g is in or has finished
  checks,     \* checks[g]: comparisons with the level still to make
  seen,       \* seen[g]: levels the logger had during the call of g
  data,       \* data[g]: keys in the Data of the entry that g reuses
  keys,       \* keys[g]: the keys under which Format has printed g's fields
  out,        \* what was written to Out: the beginnings and ends of lines
  exited      \* os.Exit was called by this goroutine, or {}

vars == <<level, formatter, sets, mu, pc, n, checks, seen, data, keys, out, exited>>

PanicLevel == 0
FatalLevel == 1

Formatters == {"text", "json"}

Own(g) == Calls[g][n[g]]

Init ==
  /\ level \in Levels /\ formatter \in Formatters /\ sets = 0 /\ mu = {} /\ exited = {} /\ out = <<>>
  /\ pc = [g \in Goroutines |-> "idle"]
  /\ n = [g \in Goroutines |-> 0]
  /\ checks = [g \in Goroutines |-> 0]
  /\ seen = [g \in Goroutines |-> {}]
  /\ data = [g \in Goroutines |-> UserFields]
  /\ keys = [g \in Goroutines |-> {}]

Running == exited = {}
At(g, here) == Running /\ pc[g] = here
Go(g, there) == pc' = [pc EXCEPT ![g] = there]
Returned(g) == pc[g] \in {"idle", "panic"}

-----------------------------------------------------------------------------
(***************************************************************************)
(* The functions that log: Info compares the level twice, once for the     *)
(* Logger and once for the Entry, Infof three times, Print once.           *)
(***************************************************************************)
Call(g) ==
  /\ At(g, "idle") /\ n[g] < Len(Calls[g])
  /\ n' = [n EXCEPT ![g] = @ + 1]
  /\ \E k \in 1 .. 3 : checks' = [checks EXCEPT ![g] = k]
  /\ seen' = [seen EXCEPT ![g] = {level}]
  /\ Go(g, "check")
  /\ UNCHANGED <<level, formatter, sets, mu, data, keys, out, exited>>

\* Fatal exits whether or not it was logged.
Disabled(g) ==
  IF Own(g) = FatalLevel THEN exited' = {g} /\ UNCHANGED pc
  ELSE Go(g, "idle") /\ UNCHANGED exited

\* Mutant: a level equal to the logger's is not logged.
CheckStrict(g) ==
  /\ At(g, "check")
  /\ IF level > Own(g)
     THEN /\ checks' = [checks EXCEPT ![g] = @ - 1]
          /\ Go(g, IF checks[g] = 1 THEN "fire" ELSE "check")
          /\ UNCHANGED exited
     ELSE Disabled(g) /\ UNCHANGED checks
  /\ UNCHANGED <<level, formatter, sets, mu, n, seen, data, keys, out>>

Check(g) ==
  /\ At(g, "check")
  /\ IF level >= Own(g)
     THEN /\ checks' = [checks EXCEPT ![g] = @ - 1]
          /\ Go(g, IF checks[g] = 1 THEN "fire" ELSE "check")
          /\ UNCHANGED exited
     ELSE Disabled(g) /\ UNCHANGED checks
  /\ UNCHANGED <<level, formatter, sets, mu, n, seen, data, keys, out>>

SetLevel(l) ==
  /\ Running /\ mu = {} /\ sets < MaxSets
  /\ level' = l /\ sets' = sets + 1
  /\ seen' = [g \in Goroutines |-> IF Returned(g) THEN seen[g] ELSE seen[g] \cup {l}]
  /\ UNCHANGED <<formatter, mu, pc, n, checks, data, keys, out, exited>>

SetFormatter(f) ==
  /\ Running /\ mu = {} /\ sets < MaxSets
  /\ formatter' = f /\ sets' = sets + 1
  /\ UNCHANGED <<level, mu, pc, n, checks, seen, data, keys, out, exited>>

-----------------------------------------------------------------------------
(***************************************************************************)
(* Entry.log.                                                              *)
(***************************************************************************)
\* The hooks: one may log, or fail and be reported on os.Stderr.
Fire(g) ==
  /\ At(g, "fire")
  /\ Go(g, "hook") \/ Go(g, "format")
  /\ UNCHANGED <<level, formatter, sets, mu, n, checks, seen, data, keys, out, exited>>

\* The line of a hook, or the report, under the mutex; its text is left out.
HookWrites(g) ==
  /\ At(g, "hook") /\ mu = {}
  /\ Go(g, "format")
  /\ UNCHANGED <<level, formatter, sets, mu, n, checks, seen, data, keys, out, exited>>

Clashing == {"level", "msg", "time"}
Prefixed(k) == CASE k = "level" -> "fields.level" [] k = "msg" -> "fields.msg" [] k = "time" -> "fields.time"

PrefixFieldClashes(fields) ==
  fields \cup {Prefixed(k) : k \in fields \cap Clashing}

\* JSONFormatter.Format prefixes a copy of the fields, then puts its own time,
\* msg and level in their place.
JSONFormat(g) ==
  /\ formatter = "json"
  /\ keys' = [keys EXCEPT ![g] = PrefixFieldClashes(data[g]) \ Clashing]
  /\ UNCHANGED data

\* TextFormatter.Format takes the keys, then prefixes the entry's own fields;
\* a field called level is printed next to the line's own.
TextFormat(g) ==
  /\ formatter = "text"
  /\ keys' = [keys EXCEPT ![g] = data[g]]
  /\ data' = [data EXCEPT ![g] = PrefixFieldClashes(@)]

Format(g) ==
  /\ At(g, "format")
  /\ JSONFormat(g) \/ TextFormat(g)
  /\ Go(g, "lock")
  /\ UNCHANGED <<level, formatter, sets, mu, n, checks, seen, out, exited>>

\* Mutant: the mutex is not taken.
LockNot(g) ==
  /\ At(g, "lock")
  /\ Go(g, "write")
  /\ UNCHANGED <<level, formatter, sets, mu, n, checks, seen, data, keys, out, exited>>

Lock(g) ==
  /\ At(g, "lock") /\ mu = {}
  /\ mu' = {g}
  /\ Go(g, "write")
  /\ UNCHANGED <<level, formatter, sets, n, checks, seen, data, keys, out, exited>>

Line(g, part) == [g |-> g, n |-> n[g], part |-> part, keys |-> keys[g]]

\* io.Copy, in two parts.
Begin(g) ==
  /\ At(g, "write")
  /\ out' = Append(out, Line(g, "begin"))
  /\ Go(g, "writing")
  /\ UNCHANGED <<level, formatter, sets, mu, n, checks, seen, data, keys, exited>>

End(g) ==
  /\ At(g, "writing")
  /\ out' = Append(out, Line(g, "end"))
  /\ Go(g, "unlock")
  /\ UNCHANGED <<level, formatter, sets, mu, n, checks, seen, data, keys, exited>>

\* Mutant: Unlock is not deferred, and a panic skips it.
UnlockLast(g) ==
  /\ At(g, "unlock")
  /\ mu' = IF Own(g) = PanicLevel THEN mu ELSE {}
  /\ IF Own(g) = FatalLevel THEN exited' = {g} /\ UNCHANGED pc
     ELSE Go(g, IF Own(g) = PanicLevel THEN "panic" ELSE "idle") /\ UNCHANGED exited
  /\ UNCHANGED <<level, formatter, sets, n, checks, seen, data, keys, out>>

\* The deferred Unlock, on return and on panic; then Fatal exits.
Unlock(g) ==
  /\ At(g, "unlock")
  /\ mu' = {}
  /\ IF Own(g) = FatalLevel THEN exited' = {g} /\ UNCHANGED pc
     ELSE Go(g, IF Own(g) = PanicLevel THEN "panic" ELSE "idle") /\ UNCHANGED exited
  /\ UNCHANGED <<level, formatter, sets, n, checks, seen, data, keys, out>>

-----------------------------------------------------------------------------
Step(g) ==
  Call(g) \/ Check(g) \/ Fire(g) \/ HookWrites(g) \/ Format(g) \/ Lock(g) \/ Begin(g) \/ End(g) \/ Unlock(g)
Next ==
  \/ \E g \in Goroutines : Step(g)
  \/ \E l \in Levels : SetLevel(l)
  \/ \E f \in Formatters : SetFormatter(f)

Spec == Init /\ [][Next]_vars /\ \A g \in Goroutines : WF_vars(Step(g))

-----------------------------------------------------------------------------
(***************************************************************************)
(* Properties.                                                             *)
(***************************************************************************)
Begun(g, k) == \E i \in DOMAIN out : out[i].g = g /\ out[i].n = k /\ out[i].part = "begin"

\* The lines of several goroutines are not torn: nothing is written to Out
\* between the beginning and the end of a line, not even by a goroutine that
\* panics, and a goroutine's lines come in the order of its calls.
LinesWhole ==
  \A i \in DOMAIN out :
    /\ out[i].part = "begin" => i = Len(out) \/ out[i + 1] = [out[i] EXCEPT !.part = "end"]
    /\ \A j \in 1 .. i : out[i].g = out[j].g => out[j].n <= out[i].n

\* A call whose level was enabled all the time has written its line when it
\* returns, panics or exits, and one whose level was never enabled has not,
\* however SetLevel interferes with the comparisons on the way.
EnabledIsLogged ==
  \A g \in Goroutines :
    (n[g] > 0 /\ (Returned(g) \/ exited = {g})) =>
      /\ (\A l \in seen[g] : l >= Own(g)) => Begun(g, n[g])
      /\ (\A l \in seen[g] : l < Own(g)) => ~Begun(g, n[g])

\* No field of the user is lost: a line has it under its own name or, if it is
\* called time, msg or level, under its prefixed name, each time the entry is
\* logged and whichever formatters it was logged with before.
ClashesKept ==
  \A i \in DOMAIN out : \A k \in UserFields :
    k \in out[i].keys \/ (k \in Clashing /\ Prefixed(k) \in out[i].keys)

\* What is enabled is logged, with all its fields.
LoggedInFull == EnabledIsLogged /\ ClashesKept

\* Every call returns, panics or exits: hooks that log, panics and SetLevel
\* cannot leave the mutex taken; and Fatal exits "even if the logging level is
\* set to Panic".
CallsEnd ==
  \A g \in Goroutines : \A k \in DOMAIN Calls[g] :
    (n[g] = k) ~> \/ exited # {}
                  \/ n[g] >= k /\ Returned(g) /\ Calls[g][k] # FatalLevel
=============================================================================
