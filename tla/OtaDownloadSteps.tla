-------------------------- MODULE OtaDownloadSteps --------------------------
(***************************************************************************)
(* OtaDownload seen as ota_task's part of OtaCoordination: MQTT stands at  *)
(* its gate, or sleeps its longest back-off on the workspace, and every    *)
(* step short of a reset is a step there or leaves its state alone.        *)
(***************************************************************************)
EXTENDS OtaDownload

Unfinished == pc \notin Ended
Verified == index = num_chunks(dl) /\ post_verify /\ verify_flash_readback

\* The slot that is updated: whole until it is erased, and again once what was
\* written to it is verified.
TargetImage ==
  IF (pc = "failed" /\ Verified) \/ (\A i \in Chunks(dl) : flash[i] = Old)
  THEN "Whole" ELSE "Broken"

OC == INSTANCE OtaCoordination WITH
  Slots <- {"running", "target"}, Manifests <- {}, NoManifest <- "none",
  MqttUseTls <- TRUE, CommandDepth <- 1, Readings <- FALSE, InboxDepth <- 1,
  MaxPublishes <- 0, MaxResets <- 0, FlashFaults <- TRUE, Prompt <- FALSE,
  image <- [running |-> "Whole", target |-> TargetImage],
  slotState <- [running |-> "Valid", target |-> targetState],
  \* between activate_next_partition and mark_current_app_new nobody looks
  selected <- IF pc = "mark" THEN "running" ELSE selected,
  running <- "running", flashLocked <- Unfinished,
  retained <- "none", inbox <- <<>>, published <- 0, resets <- 0,
  otaState <- IF Unfinished THEN "Applying" ELSE "Inactive",
  seen <- Unfinished /\ tls # "mqtt", health <- "Disconnected",
  otaQueue <- <<>>, mqttQueue <- <<>>, tls <- tls,
  mqttPc <- IF tls = "mqtt" THEN "setupBackoff" ELSE "gate",
  backoff <- 60, sessionOta <- "Inactive", deferred <- FALSE,
  otaPc <- IF ~Unfinished THEN "recv"
           ELSE IF pc \in {"netWait", "tlsWait"} THEN pc ELSE "fetch",
  manifest <- [https |-> dl.https], confirmPc <- "done", windowElapsed <- FALSE

\* The steps OtaCoordination gives ota_task between the flash lock and its
\* release are all that an attempt can do: no order of redirects, chunks,
\* errors and metadata writes shows the other tasks anything else.
AttemptIsOtaTask ==
  [][pc' = "rebooted" \/ OC!OtaNext \/ OC!MqttBackoffExpires
       \/ UNCHANGED OC!vars]_vars
============================================================================
