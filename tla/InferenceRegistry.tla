-------------------------- MODULE InferenceRegistry --------------------------
(***************************************************************************)
(* inference-service, and the catalogue of models that api-service shows.  *)
(*                                                                         *)
(* The service runs as several uvicorn processes behind one address, and   *)
(* each has a registry of its own: a dict filled with the default models   *)
(* when the module is imported, and again by the lifespan where one is     *)
(* missing.  A load reaches one process and is lost when that restarts.    *)
(* No handler awaits anything, so each request is one step of its process; *)
(* only a load changes the registry, and predict, batch_predict and        *)
(* list_loaded_models are functions of it.  api-service does not ask the   *)
(* service: its list_models is a constant.                                 *)
(***************************************************************************)
EXTENDS Integers

CONSTANTS
    Process,       \* the processes, of all replicas
    Model,         \* names of models
    Default,       \* those every process loads
    MaxBatchSize,  \* settings.max_batch_size
    Catalogue      \* Catalogue[m]: max_batch_size of m in list_models

RegistryAssumption ==
    /\ Default \subseteq Model
    /\ MaxBatchSize \in Nat
    /\ DOMAIN Catalogue \subseteq Default
    /\ \A m \in DOMAIN Catalogue : Catalogue[m] \in Nat

VARIABLES
    state,  \* state[p]: "down", "starting" (module imported) or "serving"
    models  \* models[p]: the keys of _loaded_models

rvars == <<state, models>>

RegistryInit ==
    /\ state = [p \in Process |-> "down"]
    /\ models = [p \in Process |-> {}]

-----------------------------------------------------------------------------
(* The import of the module. *)
Import(p) ==
    /\ state[p] = "down"
    /\ state' = [state EXCEPT ![p] = "starting"]
    /\ models' = [models EXCEPT ![p] = Default]

(* The lifespan. *)
StartUp(p) ==
    /\ state[p] = "starting"
    /\ state' = [state EXCEPT ![p] = "serving"]
    /\ models' = [models EXCEPT ![p] = @ \cup Default]

(* A rollout, a full node, a crash: the registry is gone. *)
Stop(p) ==
    /\ state[p] # "down"
    /\ state' = [state EXCEPT ![p] = "down"]
    /\ models' = [models EXCEPT ![p] = {}]

(* load_model_endpoint, for a model that was loaded before or not. *)
Load(p, m) ==
    /\ state[p] = "serving"
    /\ models' = [models EXCEPT ![p] = @ \cup {m}]
    /\ UNCHANGED state

RegistryNext == \E p \in Process :
    \/ Import(p) \/ StartUp(p) \/ Stop(p)
    \/ \E m \in Model : Load(p, m)

RegistrySpec == RegistryInit /\ [][RegistryNext]_rvars

-----------------------------------------------------------------------------
(* predict: run_model_inference raises InferenceError without the model. *)
PredictCode(p, m) == IF m \in models[p] THEN 200 ELSE 500

(* batch_predict: the limit first, then the inputs one after the other; an *)
(* empty batch never looks for the model.                                  *)
BatchCode(p, m, n) ==
    IF n > MaxBatchSize THEN 400 ELSE
    IF n > 0 THEN PredictCode(p, m) ELSE 200

RegistryTypeOK ==
    /\ state \in [Process -> {"down", "starting", "serving"}]
    /\ models \in [Process -> SUBSET Model]

(* api-service/app/api/v1/inference.py:122, "List available models for     *)
(* inference.": whichever process a request meets, freshly restarted or    *)
(* long up, serves each listed model, in batches of every size up to the   *)
(* max_batch_size that is listed with it.                                  *)
CatalogueIsServed == \A p \in Process : state[p] = "serving" =>
    \A m \in DOMAIN Catalogue :
        /\ PredictCode(p, m) = 200
        /\ \A n \in 0..Catalogue[m] : BatchCode(p, m, n) = 200
=============================================================================
