---------------------------- MODULE Configuration ---------------------------
(***************************************************************************)
(* Config::new (config.rs): four layers of settings are merged, each over  *)
(* the one before, and the result must hold every required field.  A value *)
(* is known by the layer it is from; which settings a layer gives is an    *)
(* input.                                                                  *)
(***************************************************************************)

CONSTANTS
  Required,  \* fields of Config and its tables that are no Option
  Optional   \* sentry, graylog, filelog

Settings == Required \cup Optional

\* config/base, config/$RUN_MODE (or config/development), config/secret.toml,
\* and the variables with the prefix STQ_PAYMENTS.
Layers == {"base", "mode", "secret", "environment"}

Unset == [s \in Settings |-> "none"]

\* RawConfig::merge of a layer over what there is.
Merge(config, sources, layer) ==
  [s \in Settings |-> IF s \in sources[layer] THEN layer ELSE config[s]]

\* Mutant: the file for the mode is merged last of the files.
ModeOverSecret(sources) ==
  Merge(Merge(Merge(Merge(Unset, sources, "base"), sources, "secret"),
              sources, "mode"), sources, "environment")

Merged(sources) ==
  Merge(Merge(Merge(Merge(Unset, sources, "base"), sources, "mode"),
              sources, "secret"), sources, "environment")

\* try_into; and the base file, which is never empty, is required.
Accepted(sources) ==
  sources["base"] # {} /\ \A s \in Required : Merged(sources)[s] # "none"
=============================================================================
