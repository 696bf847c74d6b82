CONSTANTS
    Versions <- CodecVersions
    Nonces <- CodecNonces
    Domains <- CodecDomains
    Addresses <- CodecAddresses
    Bodies <- CodecBodies
    Cuts <- CodecCuts
SPECIFICATION Spec
INVARIANTS TypeOK RoundTrip DecodersAgree
CHECK_DEADLOCK FALSE
