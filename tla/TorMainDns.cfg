\* The message of run_tor_main_loop about a failure of dns_init.
CONSTANTS
    Procs = {p1}
    None = None
SPECIFICATION Spec
PROPERTIES DnsFailureExits
