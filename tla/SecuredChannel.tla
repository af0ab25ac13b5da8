---------------------------- MODULE SecuredChannel ----------------------------
(***************************************************************************)
(* The request signature of src/startup.py: CreateHmac and                 *)
(* CreateRequestHmac.                                                      *)
(*                                                                         *)
(* HMAC-SHA256 is idealised as a record of its inputs: two digests are     *)
(* equal iff the contents and the keys are.  The bytes type checks that    *)
(* raise TypeError are left out; every caller passes bytes (str under the  *)
(* Python 2 this file runs on).  SecureBytesEqual is not modelled: nothing *)
(* in the file calls it.                                                   *)
(***************************************************************************)

\* CreateHmac lines 29-38: hmac.new( hmac_secret, content, sha256 ).digest()
CreateHmac(content, hmac_secret) == [content |-> content, key |-> hmac_secret]

\* CreateRequestHmac lines 41-57: the HMAC of the joined HMACs of the parts
CreateRequestHmac(method, path, body, hmac_secret) ==
  CreateHmac(<<CreateHmac(method, hmac_secret), CreateHmac(path, hmac_secret),
               CreateHmac(body, hmac_secret)>>,
             hmac_secret)

====
