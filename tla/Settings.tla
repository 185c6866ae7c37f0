------------------------------ MODULE Settings ------------------------------
(***************************************************************************)
(* The settings that clients change through packages/amadeus/server.py:     *)
(* the model API, speech, the embedding model, runtime.yaml and tools.yaml. *)
(* A request rewrites one file after the other, each by reading it whole    *)
(* and writing it whole, and then changes the runtime; requests run in      *)
(* threads, with no lock.                                                   *)
(*                                                                         *)
(* A file is a function from its settings to numbers: 0 is what the code    *)
(* fills in, 1 what was configured by hand, the others are updates.  Of     *)
(* providers.yaml, "a" and "b" are entries of the llm section ("a" the one  *)
(* that is filled in) and the others are sections.                          *)
(***************************************************************************)
EXTENDS Naturals, Sequences

CONSTANTS
  Threads,    \* threads of the HTTP server
  Asked,      \* the kinds of update that clients ask for
  MaxUpdates  \* how many updates are tried

VARIABLES
  file,     \* what is on disk
  live,     \* what the runtime works with
  at,       \* what each thread does
  used,     \* how many updates were tried
  said,     \* history: what was last written for each setting
  clashed,  \* history: files whose rewriting overlapped another, or was cut short
  met       \* history: two requests overlapped, or one was cut short

vars == <<file, live, at, used, said, clashed, met>>

Models == {"a", "b"}

Settings ==
  [env |-> {"key", "llm", "tts", "embedding"},
   providers |-> Models \union {"tts", "asr", "embedding", "other"},
   runtime |-> {"x", "y", "memory"},
   tools |-> {"mcp", "other"}]

Files == DOMAIN Settings
Editable == {"x", "y"}  \* RUNTIME_CONFIG_FIELDS
Nothing == <<>>

Content(f, c) == DOMAIN c \subseteq Settings[f] /\ \A s \in DOMAIN c : c[s] \in 0 .. MaxUpdates + 1

(***************************************************************************)
(* A request: the rewrites left, as <<file, setting>>; how far it is with   *)
(* the first; what it has read, of the llm section ("parsed") and in all.   *)
(***************************************************************************)
Idle == [left |-> <<>>, step |-> "idle", parsed |-> Nothing, seen |-> Nothing, value |-> 0]

TypeOK ==
  /\ \A f \in Files : Content(f, file[f]) /\ Content(f, said[f])
  /\ live \in [{"llm", "tts", "embedding", "x", "y", "memory", "mcp"} -> 0 .. MaxUpdates + 1]
  /\ DOMAIN at = Threads
  /\ \A p \in Threads : at[p].step \in {"idle", "parse", "read", "open", "fill", "apply"}
  /\ used \in 0 .. MaxUpdates
  /\ clashed \subseteq Files /\ met \in BOOLEAN

Written == [f \in Files |-> [s \in Settings[f] |-> 1]]

\* What is read of a file, where the code fills in what is missing.
Of(content, s) == IF s \in DOMAIN content THEN content[s] ELSE 0

Loaded(runtime) == [s \in {"x", "y", "memory"} |-> Of(runtime, s)]

\* Everything the runtime reads when it starts; the environment goes first.
Started(disk) ==
  [s \in DOMAIN live |->
     IF s \in DOMAIN Loaded(disk.runtime) THEN Loaded(disk.runtime)[s]
     ELSE IF s = "mcp" THEN Of(disk.tools, s) ELSE Of(disk.env, s)]

Init ==
  /\ file = Written /\ said = Written
  /\ live = [s \in {"llm", "tts", "embedding", "x", "y", "memory", "mcp"} |-> 1]
  /\ at = [p \in Threads |-> Idle]
  /\ used = 0 /\ clashed = {} /\ met = FALSE

----------------------------------------------------------------------------
(* What is written.                                                        *)

\* The llm section is written from what was parsed, or kept, or filled in.
Entries(parsed, seen, s) ==
  LET from == IF s \in Models THEN parsed ELSE seen
      known == DOMAIN from \intersect Models
  IN IF known = {} /\ s \notin Models THEN [m \in {"a"} |-> 0] ELSE [m \in known |-> from[m]]

\* assemble_providers_config: the other sections as they were read; tts and asr
\* are filled in.
Providers(parsed, seen, s, v) ==
  LET llm == Entries(parsed, seen, s) IN
    [x \in DOMAIN llm \union {"tts", "asr", s} \union (DOMAIN seen \ Models) |->
       IF x = s THEN v ELSE IF x \in Models THEN llm[x] ELSE Of(seen, x)]

\* update_runtime_config_content: an empty file is written from what the
\* runtime works with, as far as clients may change it.
Runtime(seen, s, v) ==
  IF seen = Nothing THEN [x \in Editable |-> IF x = s THEN v ELSE live[x]]
  ELSE [x \in DOMAIN seen \union {s} |-> IF x = s THEN v ELSE seen[x]]

With(seen, s, v) == [x \in DOMAIN seen \union {s} |-> IF x = s THEN v ELSE seen[x]]

Rewritten(f, r, s) ==
  CASE f = "providers" -> Providers(r.parsed, r.seen, s, r.value)
    [] f = "runtime" -> Runtime(r.seen, s, r.value)
    [] OTHER -> With(r.seen, s, r.value)

----------------------------------------------------------------------------
(* The handlers.                                                           *)

\* What a request rewrites.
ApiUpdates == {<<<<"env", "llm">>, <<"providers", m>>>> : m \in Models}
SpeechUpdate == <<<<"env", "tts">>, <<"providers", "tts">>>>
EmbeddingUpdate == <<<<"env", "embedding">>, <<"providers", "embedding">>>>
RuntimeUpdates == {<<<<"runtime", s>>>> : s \in Editable}
ToolsUpdate == <<<<"tools", "mcp">>>>

\* An update of the configuration may be of the model API and of runtime.yaml.
ConfigUpdates ==
  ApiUpdates \union RuntimeUpdates \union
    {<<<<"env", "llm">>, <<"providers", m>>, <<"runtime", s>>>> : m \in Models, s \in Editable}

Kinds == ConfigUpdates \union {SpeechUpdate, EmbeddingUpdate, ToolsUpdate}

SettingsAssumption == Asked \subseteq Kinds /\ MaxUpdates \in Nat

First(left) ==
  IF left = <<>> THEN "idle"
  ELSE IF left[1] \in {"providers"} \X Models THEN "parse" ELSE "read"

Request(left, v) ==
  [left |-> left, step |-> First(left), parsed |-> Nothing, seen |-> Nothing,
   value |-> IF left = <<>> THEN 0 ELSE v]

Busy(p) == at[p].step # "idle"
File(p) == at[p].left[1][1]
Setting(p) == at[p].left[1][2]

\* It has read something of f that it is about to write.
Holds(p, f) ==
  /\ Busy(p) /\ File(p) = f
  /\ at[p].step \in {"open", "fill"} \/ (at[p].step = "read" /\ First(at[p].left) = "parse")

Begin(p) ==
  /\ ~Busy(p) /\ used < MaxUpdates
  /\ \E left \in Asked : at' = [at EXCEPT ![p] = Request(left, used + 2)]
  /\ used' = used + 1
  /\ met' = (met \/ \E q \in Threads : Busy(q))
  /\ UNCHANGED <<file, live, said, clashed>>

Clash(p, f) == clashed' = clashed \union {g \in {f} : \E q \in Threads \ {p} : Holds(q, f)}

\* parse_providers_config, for the entries of the other models.
Parse(p) ==
  /\ at[p].step = "parse"
  /\ at' = [at EXCEPT ![p].step = "read", ![p].parsed = file.providers]
  /\ Clash(p, "providers")
  /\ UNCHANGED <<file, live, used, said, met>>

Read(p) ==
  /\ at[p].step = "read"
  /\ at' = [at EXCEPT ![p].step = "open", ![p].seen = file[File(p)]]
  /\ Clash(p, File(p))
  /\ UNCHANGED <<file, live, used, said, met>>

\* write_text empties the file, and writes.
Open(p) ==
  /\ at[p].step = "open"
  /\ file' = [file EXCEPT ![File(p)] = Nothing]
  /\ at' = [at EXCEPT ![p].step = "fill"]
  /\ UNCHANGED <<live, used, said, clashed, met>>

\* The runtime changes after every file but .env.
Fill(p) ==
  /\ at[p].step = "fill"
  /\ LET r == at[p] IN
       /\ file' = [file EXCEPT ![File(p)] = Rewritten(File(p), r, Setting(p))]
       /\ said' = [said EXCEPT ![File(p)][Setting(p)] = r.value]
       /\ at' = [at EXCEPT ![p] = IF File(p) = "env" THEN Request(Tail(r.left), r.value)
                                                     ELSE [r EXCEPT !.step = "apply"]]
  /\ UNCHANGED <<live, used, clashed, met>>

\* configure_model_api takes the request's own values; the new speech provider,
\* reload_runtime_config and reload_tool_registry read what is on disk now.
Applied(f, s, v) ==
  IF f = "tools" THEN [live EXCEPT !.mcp = Of(file.tools, "mcp")]
  ELSE IF s \in Models THEN [live EXCEPT !.llm = v]
  ELSE IF s = "tts" THEN [live EXCEPT !.tts = Of(file.providers, "tts")]
  ELSE [x \in DOMAIN live |->
          IF x \in DOMAIN Loaded(file.runtime) THEN Loaded(file.runtime)[x]
          ELSE IF x = "embedding" THEN Of(file.providers, x) ELSE live[x]]

\* What is validated is validated before the first file is read, but for the
\* runtime part of an update of both: if it turns out to be wrong the client gets
\* an error, with the model API changed already.
Apply(p) ==
  /\ at[p].step = "apply"
  /\ live' = Applied(File(p), Setting(p), at[p].value)
  /\ \E left \in {Tail(at[p].left), <<>>} : at' = [at EXCEPT ![p] = Request(left, at[p].value)]
  /\ UNCHANGED <<file, used, said, clashed, met>>

Emptied(p, f) == at[p].step = "fill" /\ File(p) = f

\* The process ends anywhere and is started again.
Restart ==
  /\ \E p \in Threads : Busy(p)
  /\ at' = [p \in Threads |-> Idle]
  /\ live' = Started(file)
  /\ clashed' = clashed \union {f \in Files : \E p \in Threads : Emptied(p, f)}
  /\ met' = TRUE
  /\ UNCHANGED <<file, used, said>>

Next ==
  \/ Restart
  \/ \E p \in Threads : Begin(p) \/ Parse(p) \/ Read(p) \/ Open(p) \/ Fill(p) \/ Apply(p)

Spec == Init /\ [][Next]_vars

----------------------------------------------------------------------------
(***************************************************************************)
(* A file that no two requests rewrote at a time, and no crash cut short,   *)
(* has every setting as it was last written, whatever other settings and    *)
(* files were changed in between: server.py reads it and writes it whole.   *)
(***************************************************************************)
OthersKept ==
  \A f \in Files \ clashed : (\A p \in Threads : ~Emptied(p, f)) => file[f] = said[f]

\* If no two requests overlapped, the runtime works with what is on disk.
RuntimeFollows ==
  (~met /\ \A p \in Threads : ~Busy(p)) =>
    /\ \A s \in {"tts", "embedding"} : live[s] = file.env[s] /\ live[s] = file.providers[s]
    /\ live.llm = file.env.llm
    /\ \A s \in {"x", "y", "memory"} : live[s] = file.runtime[s]
    /\ live.mcp = file.tools.mcp

SettingsKept == OthersKept /\ RuntimeFollows
=============================================================================
