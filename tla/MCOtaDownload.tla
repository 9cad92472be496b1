--------------------------- MODULE MCOtaDownload ---------------------------
(* Chunks of 4 and sectors of 3 bytes, so that neither divides the other.  *)
EXTENDS OtaDownloadSteps

MCDownloads == [size : {1, 3, 4, 5, 8, 9, 10}, https : BOOLEAN,
                prefixOk : BOOLEAN, published : BOOLEAN]
============================================================================
