--------------------------- MODULE Configuration ---------------------------
(***************************************************************************)
(* Configurations (crates/morphit/src/config.rs, device.rs) and the ways   *)
(* they reach a session: a config object of a host that is set key by key  *)
(* or by a JSON of updates (C, Python, browser), a pack request of the     *)
(* robot service with its allow-list (crates/morphit-robot/src/config.rs)  *)
(* and the command line.  One parameter stands for each kind of type and   *)
(* of validation rule.  Floats are counted in halves.                      *)
(***************************************************************************)
EXTENDS Integers, FiniteSets, SequencesExt

CONSTANTS
  U64Max,     \* bound: the largest 64-bit integer
  Ints, Halves, Strings,  \* bound: JSON numbers and strings in calls
  Documents,  \* bound: JSON documents, as functions from keys
  MaxAsked,   \* bound: parameters a host sets
  Refused     \* an error

VARIABLES
  start,    \* the config object as it was made
  config,   \* the host's config object
  asked,    \* history: the value last accepted for each parameter that was set
  running   \* the session: its config and what had been asked for, or Refused

vars == <<start, config, asked, running>>

Uints == {"model.num_spheres", "model.num_inside_samples", "training.iterations",
          "training.verbose_frequency", "training.convergence_patience",
          "training.density_control_patience"}
Floats == {"model.density", "training.center_lr", "training.density_control_cooling_factor",
           "training.coverage_weight", "training.flatness_weight"}
Parameters ==
  Uints \cup Floats \cup {"training.prune_contained_spheres", "model.device", "random_seed"}

TypeOf ==
  [k \in Parameters |->
     CASE k \in Uints -> "uint" [] k \in Floats -> "float" [] k = "random_seed" -> "seed"
       [] k = "model.device" -> "string" [] OTHER -> "bool"]
OtherKeys == {"model", "model.nothing", "nothing.density"}

NoSeed == -1
Integer(n) == [int |-> n]
Float(h) == [float |-> h]
Bool(b) == [bool |-> b]
Str(s) == [string |-> s]
Null == [null |-> NoSeed]
Is(value, kind) == kind \in DOMAIN value
JsonValues == {Integer(n) : n \in Ints} \cup {Float(h) : h \in Halves} \cup {Str(s) : s \in Strings}
                \cup {Bool(FALSE), Null}
-----------------------------------------------------------------------------
\* Device::parse and Display: Python's names are other names of `gpu'.
DeviceOf(s) ==
  CASE s \in {"auto", "cpu", "gpu", "gpu:1"} -> s
    [] s \in {"cuda", "mps"} -> "gpu"
    [] s = "cuda:1" -> "gpu:1"
    [] OTHER -> Refused

\* The coverage weight of a preset; every preset has a flatness of zero.
CoverageOf == [V |-> 10000, B |-> 3000]
Default ==
  [k \in Parameters |->
     CASE k = "model.num_spheres" -> 25 [] k = "model.num_inside_samples" -> 5000
       [] k = "training.iterations" -> 300 [] k = "training.convergence_patience" -> 50
       [] k = "training.verbose_frequency" -> 50 [] k = "training.density_control_patience" -> 1
       [] k = "model.density" -> 2000 [] k = "training.center_lr" -> 1
       [] k = "training.density_control_cooling_factor" -> 2 [] k = "training.coverage_weight" -> 20
       [] k = "training.flatness_weight" -> 0 [] k = "training.prune_contained_spheres" -> TRUE
       [] k = "model.device" -> "auto" [] OTHER -> NoSeed]

FromPreset(preset) == [Default EXCEPT !["training.coverage_weight"] = CoverageOf[preset]]

\* serde: the stored value that a JSON value means for a field of this type.
Deserialized(type, value) ==
  CASE type \in {"uint", "seed"} /\ Is(value, "int") /\ value.int \in 0..U64Max -> value.int
    [] type = "seed" /\ value = Null -> NoSeed
    [] type = "float" /\ Is(value, "int") -> 2 * value.int
    [] type \in {"float", "bool", "string"} /\ Is(value, type) -> value[type]
    [] OTHER -> Refused

Saturated(n) == IF n > U64Max THEN U64Max ELSE n

\* The bound of a float is 2^64, one more than an integer holds: the cast saturates.
CoerceLike(type, value) ==
  IF type \in {"uint", "seed"} /\ Is(value, "float") /\ value.float % 2 = 0
       /\ value.float \in 0..(2 * (U64Max + 1))
  THEN Integer(Saturated(value.float \div 2))
  ELSE value

Set(c, key, value) ==
  IF key \notin Parameters THEN Refused
  ELSE LET stored == Deserialized(TypeOf[key], CoerceLike(TypeOf[key], value))
       IN IF stored = Refused THEN Refused ELSE [c EXCEPT ![key] = stored]

\* apply_updates_json on a sequence of pairs: the config it ends with.
SetAll(c, updates) ==
  FoldLeft(LAMBDA next, u : IF next = Refused THEN Refused ELSE Set(next, u[1], u[2]), c, updates)

\* A bug for the checks to find: each update is made to the config itself.
UpdatedInPlace(c, updates) ==
  FoldLeft(LAMBDA next, u : IF Set(next, u[1], u[2]) = Refused THEN next ELSE Set(next, u[1], u[2]),
           c, updates)
Updated(c, updates) == IF SetAll(c, updates) = Refused THEN c ELSE SetAll(c, updates)

\* A document: unknown keys are ignored, floats are not integers.
FromJson(document) ==
  LET Field(k) == Deserialized(TypeOf[k], document[k])
      given == DOMAIN document \cap Parameters
  IN IF \E k \in given : Field(k) = Refused THEN Refused
     ELSE [k \in Parameters |-> IF k \in given THEN Field(k) ELSE Default[k]]

Validate(c) ==
  /\ \A k \in Parameters : TypeOf[k] = "uint" /\ k # "training.iterations" => c[k] # 0
  /\ DeviceOf(c["model.device"]) # Refused
  /\ c["model.density"] > 0 /\ c["training.center_lr"] >= 0
  /\ c["training.flatness_weight"] = 0
  /\ c["training.density_control_cooling_factor"] \in 1..2
-----------------------------------------------------------------------------
(***************************************************************************)
(* PackParams: the limits of the API, and overrides by flat keys.  Nulls   *)
(* and keys off the list are dropped.                                      *)
(***************************************************************************)
OverrideMap ==
  [num_inside_samples |-> "model.num_inside_samples", coverage_weight |-> "training.coverage_weight",
   density_control_cooling_factor |-> "training.density_control_cooling_factor",
   prune_contained_spheres |-> "training.prune_contained_spheres"]

ParseAdvanced(advanced) ==
  FoldLeft(LAMBDA kept, a : IF a[1] \notin DOMAIN OverrideMap \/ a[2] = Null THEN kept
                            ELSE Append(kept, <<OverrideMap[a[1]], a[2]>>),
           <<>>, advanced)

PackConfig(params, device) ==
  LET c == [FromPreset(params.variant) EXCEPT !["model.num_spheres"] = params.num_spheres,
              !["training.iterations"] = params.iterations, !["model.device"] = device,
              !["random_seed"] = params.seed]
      done == SetAll(c, ParseAdvanced(params.advanced))
  IN IF /\ params.num_spheres \in 1..200 /\ params.iterations \in 1..1000
        /\ done # Refused /\ Validate(done)
     THEN done ELSE Refused

(***************************************************************************)
(* build_config of the command line: preset, file, options, then --set.    *)
(* The preset's weights stay where the file sets none.                     *)
(***************************************************************************)
BuildConfig(args) ==
  LET weight == "training.coverage_weight"
      file == FromJson(args.file)
      base == IF args.file = <<>> THEN FromPreset(args.preset)
              ELSE IF file = Refused THEN Refused
              ELSE [file EXCEPT ![weight] = IF weight \in DOMAIN args.file THEN @ ELSE CoverageOf[args.preset]]
      device == IF args.device = "" THEN base["model.device"] ELSE DeviceOf(args.device)
  IN IF base = Refused \/ device = Refused THEN Refused
     ELSE SetAll([base EXCEPT !["model.device"] = device,
                    !["training.iterations"] = IF args.iterations = NoSeed THEN @ ELSE args.iterations],
                 args.sets)
-----------------------------------------------------------------------------
Nothing == [k \in {} |-> Null]
\* morphit_config_new, morphit_config_from_json, Config(), from_dict, fromJson.
Init ==
  /\ start \in ({FromPreset("B")} \cup {FromJson(d) : d \in Documents}) \ {Refused}
  /\ config = start /\ asked = Nothing /\ running = Refused

\* What a JSON value means for a parameter, in the words of the documentation.
Means(key, value) ==
  CASE TypeOf[key] \in {"uint", "seed"} /\ Is(value, "float") -> Saturated(value.float \div 2)
    [] TypeOf[key] = "float" /\ Is(value, "int") -> 2 * value.int
    [] OTHER -> LET kind == CHOOSE k \in DOMAIN value : TRUE IN value[kind]

Asks(updates) ==
  [k \in {updates[i][1] : i \in DOMAIN updates} |->
     Means(k, updates[Max({i \in DOMAIN updates : updates[i][1] = k})][2])]

\* The later requests win.
Over(later, earlier) ==
  [k \in DOMAIN later \cup DOMAIN earlier |->
     IF k \in DOMAIN later THEN later[k] ELSE earlier[k]]

\* morphit_config_set_*, __setitem__, set: the handle's lock makes it one step.
SetOne(key, value) ==
  /\ Cardinality(DOMAIN asked \cup {key}) <= MaxAsked
  /\ config' = IF Set(config, key, value) = Refused THEN config ELSE Set(config, key, value)
  /\ asked' = IF Set(config, key, value) = Refused THEN asked ELSE Over(Asks(<<<<key, value>>>>), asked)
  /\ UNCHANGED <<start, running>>

SetMany(updates) ==
  /\ Cardinality(DOMAIN asked \cup {u[1] : u \in Range(updates)}) <= MaxAsked
  /\ config' = Updated(config, updates)
  /\ asked' = IF SetAll(config, updates) = Refused THEN asked ELSE Over(Asks(updates), asked)
  /\ UNCHANGED <<start, running>>

\* Session::new copies and validates.
StartSession ==
  /\ Validate(config)
  /\ running' = [config |-> config, asked |-> asked, pack |-> FALSE]
  /\ UNCHANGED <<start, config, asked>>

AsksToPack(params, device) ==
  [k \in {"model.num_spheres", "training.iterations", "random_seed", "model.device"} |->
     CASE k = "model.num_spheres" -> params.num_spheres [] k = "random_seed" -> params.seed
       [] k = "training.iterations" -> params.iterations [] OTHER -> device]

StartPack(params, device) ==
  LET c == PackConfig(params, device)
  IN /\ c # Refused
     /\ running' = [config |-> c, pack |-> TRUE,
                    asked |-> AsksToPack(params, device)]
     /\ UNCHANGED <<start, config, asked>>

StartCommand(args) ==
  LET c == BuildConfig(args)
  IN /\ c # Refused /\ Validate(c)
     /\ running' = [config |-> c, pack |-> FALSE, asked |-> Asks(args.sets)]
     /\ UNCHANGED <<start, config, asked>>
-----------------------------------------------------------------------------
(***************************************************************************)
(* A session runs what was asked for: every parameter that was accepted    *)
(* has the value last accepted for it, whatever failed before or after,    *)
(* the parameters nobody asked for keep the values they had, and a pack    *)
(* request stays within the service's limits and on its device whatever    *)
(* its `advanced' field says (config.rs:474-475, robot config.rs:81-92).   *)
(***************************************************************************)
SessionsRunWhatWasAsked ==
  /\ config = Over(asked, start)
  /\ running # Refused =>
       /\ Validate(running.config)
       /\ \A k \in DOMAIN running.asked : running.config[k] = running.asked[k]
       /\ running.pack => /\ running.config["model.num_spheres"] \in 1..200
                          /\ running.config["training.iterations"] \in 1..1000
=============================================================================
