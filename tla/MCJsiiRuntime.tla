--------------------------- MODULE MCJsiiRuntime ---------------------------
EXTENDS JsiiRuntime
=============================================================================
