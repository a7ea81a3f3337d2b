------------------------------ MODULE MCHttpClient ------------------------------
\* The module TLC runs for HttpClient.
EXTENDS HttpClient
===============================================================================
