------------------------------ MODULE Documents ------------------------------
(* The documents of one asset and the hash its token commits to:            *)
(*   services/asset/src/document/document.service.ts, document.controller.ts *)
(*   services/asset/src/asset/asset.service.ts     deployAsaToMainnet        *)
(*   apps/issuer/src/app/(dashboard)/dashboard/assets/[id]/documents/page.tsx *)
(* A document is known by the number of its upload; AssetService's other     *)
(* steps of a deployment are Issuance's.                                     *)
EXTENDS Naturals, Sequences

CONSTANTS MaxUploads, Deployers     \* bound: uploads; concurrent deployments

VARIABLES
    devMode,        \* isDevMode: configured with the placeholder key, no S3
    uploads,        \* the step of each upload: where its handler is
    bucket,         \* files that S3 has
    documents,      \* asset_documents
    acknowledged,   \* uploads the issuer was told of
    uploading,      \* the page's flag: the upload it waits for, 0 when none
    listed,         \* the page's list, from its last answer
    deployment,     \* each run of deployAsaToMainnet
    minted,         \* what each token commits to, and what had to be in it
    deployed        \* the asset's row names a token

documentVars == <<devMode, uploads, bucket, documents, acknowledged, uploading, listed, deployment,
                  minted, deployed>>

NotDeploying == [step |-> "idle", promised |-> {}, hashes |-> {}]
Uploads == DOMAIN uploads

DocumentsInit ==
    /\ devMode \in BOOLEAN
    /\ uploads = <<>> /\ bucket = {} /\ documents = {} /\ acknowledged = {}
    /\ uploading = 0 /\ listed = {}
    /\ deployment = [d \in Deployers |-> NotDeploying]
    /\ minted = {} /\ deployed = FALSE

(* In development the row is all that is written: storageKey names no file. *)
FirstStep == IF devMode THEN "row" ELSE "put"

(* handleUpload; the service hashes the file as it arrives. *)
HandleUpload_RowFirst ==                    \* Fault: the row before the file
    /\ uploading = 0 /\ Len(uploads) < MaxUploads
    /\ uploading' = Len(uploads) + 1
    /\ uploads' = Append(uploads, FirstStep)
    /\ documents' = documents \cup {uploading'}
    /\ UNCHANGED <<devMode, bucket, acknowledged, listed, deployment, minted, deployed>>
HandleUpload ==
    /\ uploading = 0 /\ Len(uploads) < MaxUploads
    /\ uploading' = Len(uploads) + 1
    /\ uploads' = Append(uploads, FirstStep)
    /\ UNCHANGED <<devMode, bucket, documents, acknowledged, listed, deployment, minted,
                   deployed>>

PutObject(n) ==
    /\ uploads[n] = "put"
    /\ uploads' = [uploads EXCEPT ![n] = "row"]
    /\ bucket' = bucket \cup {n}
    /\ UNCHANGED <<devMode, documents, acknowledged, uploading, listed, deployment, minted,
                   deployed>>

CreateDocument(n) ==
    /\ uploads[n] = "row"
    /\ uploads' = [uploads EXCEPT ![n] = "done"]
    /\ documents' = documents \cup {n}
    /\ UNCHANGED <<devMode, bucket, acknowledged, uploading, listed, deployment, minted,
                   deployed>>

UploadFails(n) ==
    /\ uploads[n] \in {"put", "row"}
    /\ uploads' = [uploads EXCEPT ![n] = "failed"]
    /\ UNCHANGED <<devMode, bucket, documents, acknowledged, uploading, listed, deployment,
                   minted, deployed>>

(* The answer: the page fetches its list again.  Without one in 10 s, or *)
(* when the page is left, the upload goes on and another can be started. *)
UploadEnds(n) ==
    /\ uploading = n /\ n # 0
    /\ uploading' = 0
    /\ acknowledged' = acknowledged \cup {m \in {n} : uploads[m] = "done"}
    /\ UNCHANGED <<devMode, uploads, bucket, documents, listed, deployment, minted, deployed>>

ListByAsset ==
    /\ listed' = documents
    /\ UNCHANGED <<devMode, uploads, bucket, documents, acknowledged, uploading,
                   deployment, minted, deployed>>

DeployAsaToMainnet(d) ==
    /\ deployment[d].step = "idle" /\ ~deployed
    /\ deployment' = [deployment EXCEPT ![d].step = "hash", ![d].promised = acknowledged \cup listed]
    /\ UNCHANGED <<devMode, uploads, bucket, documents, acknowledged, uploading, listed,
                   minted, deployed>>

(* getDocumentHashes and computeMetadataHash, which sorts the hashes *)
GetDocumentHashes(d) ==
    /\ deployment[d].step = "hash"
    /\ deployment' = [deployment EXCEPT ![d].step = "mint", ![d].hashes = documents]
    /\ UNCHANGED <<devMode, uploads, bucket, documents, acknowledged, uploading, listed,
                   minted, deployed>>

CreateRwaToken(d) ==
    /\ deployment[d].step = "mint"
    /\ minted' = minted \cup {[hashes |-> deployment[d].hashes, promised |-> deployment[d].promised]}
    /\ deployment' = [deployment EXCEPT ![d].step = "record"]
    /\ UNCHANGED <<devMode, uploads, bucket, documents, acknowledged, uploading, listed,
                   deployed>>

(* The row is written last: a deployment that fails before can be repeated, *)
(* and mints another token.                                                 *)
RecordToken(d) ==
    /\ deployment[d].step = "record"
    /\ deployment' = [deployment EXCEPT ![d] = NotDeploying]
    /\ deployed' = TRUE
    /\ UNCHANGED <<devMode, uploads, bucket, documents, acknowledged, uploading, listed,
                   minted>>

DeployFails(d) ==
    /\ deployment[d].step # "idle"
    /\ deployment' = [deployment EXCEPT ![d] = NotDeploying]
    /\ UNCHANGED <<devMode, uploads, bucket, documents, acknowledged, uploading, listed,
                   minted, deployed>>

DocumentsNext ==
    \/ HandleUpload \/ ListByAsset
    \/ \E n \in Uploads : PutObject(n) \/ CreateDocument(n) \/ UploadFails(n) \/ UploadEnds(n)
    \/ \E d \in Deployers : DeployAsaToMainnet(d) \/ GetDocumentHashes(d) \/ CreateRwaToken(d)
                            \/ RecordToken(d) \/ DeployFails(d)

DocumentsSpec == DocumentsInit /\ [][DocumentsNext]_documentVars

-----------------------------------------------------------------------------
(* Whoever recomputes the hash of a token finds a row for every hash it     *)
(* commits to and, but for a service configured for development             *)
(* (document.service.ts:39), the file itself in the store; and it commits   *)
(* to every document that the issuer had been told of, or had seen in the   *)
(* list, when its deployment began (documents/page.tsx:183-189), whatever   *)
(* was being uploaded meanwhile.                                            *)
HashIsVerifiable ==
    \A token \in minted :
        /\ token.promised \subseteq token.hashes /\ token.hashes \subseteq documents
        /\ ~devMode => token.hashes \subseteq bucket
=============================================================================
