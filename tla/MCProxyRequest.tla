---------------------------- MODULE MCProxyRequest ----------------------------
EXTENDS ProxyRequest
=============================================================================
