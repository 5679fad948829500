------------------------------ MODULE Ingestion -----------------------------
(***************************************************************************)
(* Which adapter reads a document (cli.py: _detect and _parse).  A         *)
(* document is of the kind its suffix or its own marker says, and its      *)
(* adapter either raises an error or yields an IR.                         *)
(***************************************************************************)
EXTENDS Operations

OpenApi == INSTANCE OpenApi
Wsdl == INSTANCE Wsdl

\* A transport may be declared for a WSDL and for nothing else.
DocumentReadable(document) ==
    CASE document.format = "wsdl" -> Wsdl!WsdlReadable(document)
      [] OTHER -> OpenApi!OpenApiReadable(document)

ParseDocument(document) ==
    CASE document.format = "wsdl" -> Wsdl!ParseWsdl(document)
      [] OTHER -> OpenApi!LoadOpenApi(document)
=============================================================================
